---------------------------- MODULE Spec2Model ----------------------------
(***************************************************************************)
(* A model of the provider registry resolution code of synapse-sdk:        *)
(* SPRegistryService (packages/synapse-sdk/src/sp-registry/service.ts),    *)
(* the part of the post-deploy setup script that registers a provider      *)
(* (setupProvider), and the registry / Multicall3 contracts they talk to.  *)
(*                                                                         *)
(* JavaScript values are modelled as follows.  An object is a record, a    *)
(* list is a sequence, null is the record Null, a thrown error or a        *)
(* rejected promise is Rejected(message), a returned value or a fulfilled  *)
(* promise is Fulfilled(value).  An address is a natural number, 0 being   *)
(* ethers.ZeroAddress.                                                     *)
(***************************************************************************)
EXTENDS Integers, Sequences, FiniteSets, TLC

\* ------------------------------------------------------------------------
\* Bounds of the model
\* ------------------------------------------------------------------------

\* ids the batch lookup scenarios know: the registry entries 1..MaxProviderId
\* are chosen freely, and requested ids range over 1..MaxProviderId
MaxProviderId == 2

\* longest id list handed to getProviders in the batch scenarios
MaxBatch == 2

\* ------------------------------------------------------------------------
\* Values
\* ------------------------------------------------------------------------

ZeroAddress == 0

Null == [null |-> TRUE]

Fulfilled(v) == [status |-> "fulfilled", value |-> v]

Rejected(msg) == [status |-> "rejected", value |-> msg]

Range(s) == {s[i] : i \in 1..Len(s)}

NoDuplicates(ids) ==
  \A i, j \in 1..Len(ids) : i # j => ids[i] # ids[j]

RECURSIVE Flat(_)
\* Array.prototype.flat() of a list of lists
Flat(batches) ==
  IF batches = <<>> THEN <<>> ELSE Head(batches) \o Flat(Tail(batches))

\* the address that controls provider `id` in the scenarios
AddressOf(id) == 100 + id

\* ------------------------------------------------------------------------
\* The registry contract (ServiceProviderRegistry), as the client sees it
\* ------------------------------------------------------------------------
\* A registry state is [n, over]: providers 1..n are registered; `over` gives
\* the entries that differ from a plain, healthy, active provider.  An entry is
\*   get     how getProvider(id) answers: "ok", "notfound" (reverts with
\*           'Provider not found'), "reverted" (reverts with another reason),
\*           "garbage" (returns bytes that do not decode)
\*   info    the stored ServiceProviderInfo
\*   prod    how getProviderWithProduct(id, PDP) answers: "ok", "reverted",
\*           "garbage"
\*   product the stored PDP product: isActive, capabilityKeys, capabilityValues

ProviderInfoOf(addr, name, description, active) ==
  [serviceProvider |-> addr, payee |-> addr, name |-> name,
   description |-> description, isActive |-> active]

GoodProduct ==
  [isActive |-> TRUE,
   capabilityKeys |-> <<"serviceURL", "minPieceSizeInBytes">>,
   capabilityValues |-> <<"https://x", "127">>]

InactiveProduct == [GoodProduct EXCEPT !.isActive = FALSE]

NoProduct ==
  [isActive |-> FALSE, capabilityKeys |-> <<>>, capabilityValues |-> <<>>]

\* a product that carries a key the codec does not recognize
ExtendedProduct ==
  [isActive |-> TRUE,
   capabilityKeys |-> <<"serviceURL", "region", "minPieceSizeInBytes">>,
   capabilityValues |-> <<"https://x", "us-east", "127">>]

MalformedProduct ==
  [isActive |-> TRUE,
   capabilityKeys |-> <<"serviceURL", "minPieceSizeInBytes">>,
   capabilityValues |-> <<"https://x", "abc">>]

HealthyEntry(id) ==
  [get |-> "ok", info |-> ProviderInfoOf(AddressOf(id), "nameA", "descA", TRUE),
   prod |-> "ok", product |-> GoodProduct]

MissingEntry ==
  [get |-> "reverted", info |-> ProviderInfoOf(ZeroAddress, "", "", FALSE),
   prod |-> "reverted", product |-> NoProduct]

\* the entries a scenario may store for provider `id`
EntrySamples(id) ==
  LET h == HealthyEntry(id) IN
  { h,
    [h EXCEPT !.info.isActive = FALSE, !.product = InactiveProduct],
    [h EXCEPT !.prod = "reverted"],
    [h EXCEPT !.prod = "garbage"],
    [h EXCEPT !.product = NoProduct],
    [h EXCEPT !.product = MalformedProduct],
    [h EXCEPT !.product = ExtendedProduct],
    [h EXCEPT !.info = ProviderInfoOf(ZeroAddress, "", "", FALSE),
              !.product = NoProduct],
    [h EXCEPT !.get = "notfound"],
    [h EXCEPT !.get = "reverted"],
    [h EXCEPT !.get = "garbage"],
    [h EXCEPT !.get = "garbage", !.prod = "reverted"] }

Entry(reg, id) ==
  IF id \in DOMAIN reg.over THEN reg.over[id]
  ELSE IF id \in 1..reg.n THEN HealthyEntry(id)
  ELSE MissingEntry

\* what a call leaves on the wire: success flag and return data
CallResult(success, fn, value) ==
  [success |-> success, returnData |-> [fn |-> fn, value |-> value]]

NotFoundReason == "execution reverted: Provider not found"

OtherReason == "execution reverted: Provider does not exist"

RegistryGetProvider(reg, id) ==
  LET e == Entry(reg, id) IN
  CASE e.get = "ok" ->
         CallResult(TRUE, "getProvider", [providerId |-> id, info |-> e.info])
    [] e.get = "garbage" -> CallResult(TRUE, "garbage", <<>>)
    [] e.get = "notfound" -> CallResult(FALSE, "revert", NotFoundReason)
    [] OTHER -> CallResult(FALSE, "revert", OtherReason)

RegistryGetProviderWithProduct(reg, id) ==
  LET e == Entry(reg, id) IN
  CASE e.get \in {"notfound", "reverted"} ->
         CallResult(FALSE, "revert",
                    IF e.get = "notfound" THEN NotFoundReason ELSE OtherReason)
    [] e.prod = "reverted" ->
         CallResult(FALSE, "revert", "execution reverted: Product not found")
    [] e.prod = "garbage" -> CallResult(TRUE, "garbage", <<>>)
    [] OTHER ->
         CallResult(TRUE, "getProviderWithProduct",
                    [providerId |-> id, providerInfo |-> e.info,
                     product |-> [isActive |-> e.product.isActive,
                                  capabilityKeys |-> e.product.capabilityKeys],
                     productCapabilityValues |-> e.product.capabilityValues])

\* ethers: iface.decodeFunctionResult(fn, data); throws on bytes that are not
\* an encoding of fn's result
DecodeFunctionResult(fn, returnData) ==
  IF returnData.fn = fn THEN Fulfilled(returnData.value)
  ELSE Rejected("could not decode result data")

\* ethers: await contract.fn(...); throws on a revert (the message carries the
\* reason) and on undecodable return data
ContractCall(fn, result) ==
  IF result.success THEN DecodeFunctionResult(fn, result.returnData)
  ELSE Rejected(result.returnData.value)

\* ------------------------------------------------------------------------
\* Capability codec (decodeCapabilities of synapse-core)
\* ------------------------------------------------------------------------

\* what decodeCapabilities does with key and value lists of different
\* lengths is left undefined: a build either refuses them (strictLengths) or
\* decodes the pairs that have a value
VARIABLE codec

StrictCodec == [strictLengths |-> TRUE]

CodecSamples == [strictLengths : BOOLEAN]

TextKeys == {"serviceURL", "location"}

NumericKeys ==
  {"minPieceSizeInBytes", "maxPieceSizeInBytes", "storagePricePerTibPerDay"}

\* the capability values that are encodings of a number
NumberOf == ("127" :> 127) @@ ("1024" :> 1024)

\* value stored under `key`, or `dflt` when the key is absent
RECURSIVE CapabilityAt(_, _, _, _)
CapabilityAt(keys, values, key, dflt) ==
  IF keys = <<>> \/ values = <<>> THEN dflt
  ELSE IF Head(keys) = key THEN Head(values)
  ELSE CapabilityAt(Tail(keys), Tail(values), key, dflt)

DecodeCapabilities(keys, values) ==
  IF Len(keys) # Len(values) /\ codec.strictLengths
  THEN Rejected("capability keys and values differ in length")
  ELSE IF \E i \in 1..Len(keys) :
       /\ keys[i] \in NumericKeys
       /\ i <= Len(values)
       /\ values[i] \notin DOMAIN NumberOf
  THEN Rejected("malformed capability value")
  ELSE Fulfilled(
         [serviceURL |-> CapabilityAt(keys, values, "serviceURL", ""),
          minPieceSizeInBytes |->
            LET v == CapabilityAt(keys, values, "minPieceSizeInBytes", "") IN
            IF v \in DOMAIN NumberOf THEN NumberOf[v] ELSE 0,
          maxPieceSizeInBytes |->
            LET v == CapabilityAt(keys, values, "maxPieceSizeInBytes", "") IN
            IF v \in DOMAIN NumberOf THEN NumberOf[v] ELSE 0,
          storagePricePerTibPerDay |->
            LET v == CapabilityAt(keys, values, "storagePricePerTibPerDay", "") IN
            IF v \in DOMAIN NumberOf THEN NumberOf[v] ELSE 0,
          location |-> CapabilityAt(keys, values, "location", "")])

\* ------------------------------------------------------------------------
\* SPRegistryService: helpers
\* ------------------------------------------------------------------------

\* a variant that reads the value one index too far
ValueOrEmpty_OffByOne(values, i) ==
  IF i + 1 <= Len(values) THEN values[i + 1] ELSE ""

\* values[i] || '' : an index past the end reads undefined
ValueOrEmpty(values, i) == IF i <= Len(values) THEN values[i] ELSE ""

\* the last index at which `key` occurs: a later assignment overwrites
LastIndexOf(keys, key) ==
  CHOOSE i \in 1..Len(keys) :
    keys[i] = key /\ \A j \in (i + 1)..Len(keys) : keys[j] # key

\* a variant that keeps only the keys the codec recognizes
ConvertCapabilitiesToObject_RecognizedOnly(keys, values) ==
  [k \in Range(keys) \cap (TextKeys \cup NumericKeys) |->
     ValueOrEmpty(values, LastIndexOf(keys, k))]

ConvertCapabilitiesToObject(keys, values) ==
  [k \in Range(keys) |-> ValueOrEmpty(values, LastIndexOf(keys, k))]

\* the Record built by the loop over productsArray: only 'PDP' is kept, a
\* later product of the same type overwrites an earlier one
ProductsRecord(productsArray) ==
  [t \in {productsArray[i].type : i \in 1..Len(productsArray)} \cap {"PDP"} |->
     productsArray[CHOOSE i \in 1..Len(productsArray) :
                     /\ productsArray[i].type = t
                     /\ \A j \in (i + 1)..Len(productsArray) :
                          productsArray[j].type # t]]

ConvertToProviderInfo(providerId, providerInfo, productsArray) ==
  [id |-> providerId,
   serviceProvider |-> providerInfo.serviceProvider,
   payee |-> providerInfo.payee,
   name |-> providerInfo.name,
   description |-> providerInfo.description,
   active |-> providerInfo.isActive,
   products |-> ProductsRecord(productsArray)]

PDPProduct(isActive, capabilities, offering) ==
  [type |-> "PDP", isActive |-> isActive, capabilities |-> capabilities,
   data |-> offering]

\* ------------------------------------------------------------------------
\* SPRegistryService: point lookups
\* ------------------------------------------------------------------------

\* a variant that reports every decoded product as active
GetPDPService_ActiveAssumed(reg, providerId) ==
  LET call == ContractCall("getProviderWithProduct",
                           RegistryGetProviderWithProduct(reg, providerId))
  IN
  IF call.status = "rejected" THEN Fulfilled(Null)
  ELSE
    LET result == call.value
        keys == result.product.capabilityKeys
        values == result.productCapabilityValues
        offering == DecodeCapabilities(keys, values)
    IN
    IF result.providerInfo.serviceProvider = ZeroAddress THEN Fulfilled(Null)
    ELSE IF Len(keys) = 0 THEN Fulfilled(Null)
    ELSE IF offering.status = "rejected" THEN Fulfilled(Null)
    ELSE Fulfilled([offering |-> offering.value,
                    capabilities |-> ConvertCapabilitiesToObject(keys, values),
                    isActive |-> TRUE])

\* getPDPService: every failure inside the try block is caught and answered
\* with null
GetPDPService(reg, providerId) ==
  LET call == ContractCall("getProviderWithProduct",
                           RegistryGetProviderWithProduct(reg, providerId))
  IN
  IF call.status = "rejected" THEN Fulfilled(Null)
  ELSE
    LET result == call.value
        keys == result.product.capabilityKeys
        values == result.productCapabilityValues
        offering == DecodeCapabilities(keys, values)
    IN
    IF result.providerInfo.serviceProvider = ZeroAddress THEN Fulfilled(Null)
    ELSE IF Len(keys) = 0 THEN Fulfilled(Null)
    ELSE IF offering.status = "rejected" THEN Fulfilled(Null)
    ELSE Fulfilled([offering |-> offering.value,
                    capabilities |-> ConvertCapabilitiesToObject(keys, values),
                    isActive |-> result.product.isActive])

GetProviderProducts(reg, providerId) ==
  LET pdpService == GetPDPService(reg, providerId).value IN
  IF pdpService # Null
  THEN <<PDPProduct(pdpService.isActive, pdpService.capabilities,
                    pdpService.offering)>>
  ELSE <<>>

\* error.message.includes('Provider not found')
IsProviderNotFound(message) == message = NotFoundReason

\* getProvider: a read that fails with 'Provider not found' is answered with
\* null, any other failure is thrown again
GetProvider(reg, providerId) ==
  LET call == ContractCall("getProvider", RegistryGetProvider(reg, providerId))
  IN
  IF call.status = "rejected"
  THEN IF IsProviderNotFound(call.value) THEN Fulfilled(Null)
       ELSE Rejected(call.value)
  ELSE IF call.value.info.serviceProvider = ZeroAddress THEN Fulfilled(Null)
  ELSE Fulfilled(ConvertToProviderInfo(providerId, call.value.info,
                                       GetProviderProducts(reg, providerId)))

\* the registry's address index (addressToProviderId): 0 when the address
\* controls no stored record
RegistryGetProviderIdByAddress(reg, address) ==
  LET owned == {id \in 1..reg.n :
                  /\ address # ZeroAddress
                  /\ Entry(reg, id).get \in {"ok", "garbage"}
                  /\ Entry(reg, id).info.serviceProvider = address}
  IN
  CallResult(TRUE, "getProviderIdByAddress",
             IF owned = {} THEN 0
             ELSE CHOOSE id \in owned : \A other \in owned : id <= other)

\* getProviderByAddress answers an unknown address with an all-zero record
RegistryGetProviderByAddress(reg, address) ==
  LET id == RegistryGetProviderIdByAddress(reg, address).returnData.value IN
  IF id = 0
  THEN CallResult(TRUE, "getProviderByAddress",
                  [providerId |-> 0,
                   info |-> ProviderInfoOf(ZeroAddress, "", "", FALSE)])
  ELSE IF Entry(reg, id).get = "garbage"
  THEN CallResult(TRUE, "garbage", <<>>)
  ELSE CallResult(TRUE, "getProviderByAddress",
                  [providerId |-> id, info |-> Entry(reg, id).info])

\* a call that fails in transport, before the registry answers
TransportFailure == CallResult(FALSE, "revert", "network error")

\* getProviderByAddress, given what its two reads leave on the wire: both
\* reads are awaited together; every failure is caught and answered with null
GetProviderByAddressOn(reg, rawResult, idResult) ==
  LET rawProvider == ContractCall("getProviderByAddress", rawResult)
      providerId == ContractCall("getProviderIdByAddress", idResult)
  IN
  IF rawProvider.status = "rejected" \/ providerId.status = "rejected"
  THEN Fulfilled(Null)
  ELSE IF rawProvider.value.info.serviceProvider = ZeroAddress
  THEN Fulfilled(Null)
  ELSE Fulfilled(ConvertToProviderInfo(
                   providerId.value, rawProvider.value.info,
                   GetProviderProducts(reg, providerId.value)))

GetProviderByAddress(reg, address) ==
  GetProviderByAddressOn(reg, RegistryGetProviderByAddress(reg, address),
                         RegistryGetProviderIdByAddress(reg, address))

\* getProviderIdByAddress, given what its read leaves on the wire: Number(id)
GetProviderIdByAddress(result) == ContractCall("getProviderIdByAddress", result)

\* isProviderActive(id) of the registry: the stored flag, false for an id that
\* has no record
RegistryIsProviderActive(reg, id) ==
  CallResult(TRUE, "isProviderActive", Entry(reg, id).info.isActive)

\* isProviderActive, given what its read leaves on the wire
IsProviderActive(result) == ContractCall("isProviderActive", result)

\* ------------------------------------------------------------------------
\* Multicall3 (the aggregator contract) and the network configuration
\* ------------------------------------------------------------------------

RegistryAddress == "0xRegistry"

\* a Multicall3 environment: the address handed to the constructor ("null"
\* when none), the network's default address ("undefined" when the table has
\* none) and whether the aggregate3 call itself fails
MulticallSamples ==
  { [configured |-> "0xMulticall3", networkDefault |-> "undefined", throws |-> FALSE],
    [configured |-> "null", networkDefault |-> "0xDefault", throws |-> FALSE],
    [configured |-> "null", networkDefault |-> "undefined", throws |-> FALSE],
    [configured |-> "0xMulticall3", networkDefault |-> "0xDefault", throws |-> TRUE] }

\* JavaScript falsiness of an address value
Falsy(address) == address \in {"null", "undefined", ""}

\* one call of a batch, executed against the registry
ExecuteCall(reg, call) ==
  IF call.target # RegistryAddress THEN CallResult(FALSE, "revert", "no contract")
  ELSE IF call.callData.fn = "getProvider"
  THEN RegistryGetProvider(reg, call.callData.args[1])
  ELSE IF call.callData.fn = "getProviderWithProduct"
  THEN RegistryGetProviderWithProduct(reg, call.callData.args[1])
  ELSE CallResult(FALSE, "revert", "unknown function")

\* multicall.aggregate3.staticCall(calls): one result per call, in order; the
\* whole call fails when the transport does, or when a call that does not
\* allow failure reverts
Aggregate3(reg, mc, calls) ==
  LET results == [i \in 1..Len(calls) |-> ExecuteCall(reg, calls[i])] IN
  IF mc.throws THEN Rejected("aggregate3 call failed")
  ELSE IF \E i \in 1..Len(calls) : ~calls[i].allowFailure /\ ~results[i].success
  THEN Rejected("Multicall3: call failed")
  ELSE Fulfilled(results)

\* ------------------------------------------------------------------------
\* SPRegistryService: batch operations
\* ------------------------------------------------------------------------

\* a variant that lays the batch out as all getProvider calls followed by all
\* getProviderWithProduct calls
PrepareMulticallCalls_Grouped(providerIds) ==
  [k \in 1..(2 * Len(providerIds)) |->
     IF k <= Len(providerIds)
     THEN [target |-> RegistryAddress, allowFailure |-> TRUE,
           callData |-> [fn |-> "getProvider", args |-> <<providerIds[k]>>]]
     ELSE [target |-> RegistryAddress, allowFailure |-> TRUE,
           callData |-> [fn |-> "getProviderWithProduct",
                         args |-> <<providerIds[k - Len(providerIds)], 0>>]]]

\* two calls per id, in id order
PrepareMulticallCalls(providerIds) ==
  [k \in 1..(2 * Len(providerIds)) |->
     LET id == providerIds[(k + 1) \div 2] IN
     IF k % 2 = 1
     THEN [target |-> RegistryAddress, allowFailure |-> TRUE,
           callData |-> [fn |-> "getProvider", args |-> <<id>>]]
     ELSE [target |-> RegistryAddress, allowFailure |-> TRUE,
           callData |-> [fn |-> "getProviderWithProduct", args |-> <<id, 0>>]]]

\* the products of one getProviderWithProduct slot; every decoding failure is
\* caught and leaves the list empty
ExtractProductsFromMulticallResult(pdpServiceResult) ==
  IF ~pdpServiceResult.success THEN <<>>
  ELSE
    LET decoded == DecodeFunctionResult("getProviderWithProduct",
                                        pdpServiceResult.returnData)
    IN
    IF decoded.status = "rejected" THEN <<>>
    ELSE
      LET keys == decoded.value.product.capabilityKeys
          values == decoded.value.productCapabilityValues
          offering == DecodeCapabilities(keys, values)
      IN
      IF decoded.value.providerInfo.serviceProvider = ZeroAddress THEN <<>>
      ELSE IF Len(keys) = 0 THEN <<>>
      ELSE IF offering.status = "rejected" THEN <<>>
      ELSE <<PDPProduct(decoded.value.product.isActive,
                        ConvertCapabilitiesToObject(keys, values),
                        offering.value)>>

\* a variant that drops the provider when its product slot failed
ProcessMulticallSlot_DropsOnProductFailure(providerIds, results, i) ==
  LET providerResultIndex == (i - 1) * 2 + 1
      pdpServiceResultIndex == (i - 1) * 2 + 2
      decoded == DecodeFunctionResult("getProvider",
                                      results[providerResultIndex].returnData)
  IN
  IF \/ ~results[providerResultIndex].success
     \/ ~results[pdpServiceResultIndex].success
     \/ decoded.status = "rejected"
  THEN <<>>
  ELSE <<ConvertToProviderInfo(
           providerIds[i], decoded.value.info,
           ExtractProductsFromMulticallResult(results[pdpServiceResultIndex]))>>

\* a variant that lets a product slot that does not decode reach the catch of
\* the loop, which skips the provider
ProcessMulticallSlot_ProductDecodeSkips(providerIds, results, i) ==
  LET providerResultIndex == (i - 1) * 2 + 1
      pdpServiceResultIndex == (i - 1) * 2 + 2
      decoded == DecodeFunctionResult("getProvider",
                                      results[providerResultIndex].returnData)
      product == DecodeFunctionResult("getProviderWithProduct",
                                      results[pdpServiceResultIndex].returnData)
  IN
  IF \/ ~results[providerResultIndex].success
     \/ decoded.status = "rejected"
     \/ results[pdpServiceResultIndex].success /\ product.status = "rejected"
  THEN <<>>
  ELSE <<ConvertToProviderInfo(
           providerIds[i], decoded.value.info,
           ExtractProductsFromMulticallResult(results[pdpServiceResultIndex]))>>

\* the record pushed for the id at position i (1-based), as a list of zero or
\* one element: nothing when the getProvider slot failed or does not decode
ProcessMulticallSlot(providerIds, results, i) ==
  LET providerResultIndex == (i - 1) * 2 + 1
      pdpServiceResultIndex == (i - 1) * 2 + 2
  IN
  IF ~results[providerResultIndex].success THEN <<>>
  ELSE
    LET decoded == DecodeFunctionResult("getProvider",
                                        results[providerResultIndex].returnData)
    IN
    IF decoded.status = "rejected" THEN <<>>
    ELSE <<ConvertToProviderInfo(
             providerIds[i], decoded.value.info,
             ExtractProductsFromMulticallResult(results[pdpServiceResultIndex]))>>

RECURSIVE ProcessMulticallLoop(_, _, _, _)
ProcessMulticallLoop(providerIds, results, i, providers) ==
  IF i > Len(providerIds) THEN providers
  ELSE ProcessMulticallLoop(
         providerIds, results, i + 1,
         providers \o ProcessMulticallSlot(providerIds, results, i))

ProcessMulticallResults(providerIds, results) ==
  ProcessMulticallLoop(providerIds, results, 1, <<>>)

ResolveMulticall3Address(mc) ==
  IF mc.configured # "null" THEN mc.configured ELSE mc.networkDefault

GetProvidersWithMulticall(reg, mc, providerIds) ==
  LET multicall3Address == ResolveMulticall3Address(mc)
      results == Aggregate3(reg, mc, PrepareMulticallCalls(providerIds))
  IN
  IF Falsy(multicall3Address)
  THEN Rejected("No Multicall3 address configured for network")
  ELSE IF results.status = "rejected" THEN results
  ELSE Fulfilled(ProcessMulticallResults(providerIds, results.value))

\* a variant that collects the records last id first
GetProvidersIndividually_LastFirst(reg, providerIds) ==
  LET results == [i \in 1..Len(providerIds) |->
                    GetProvider(reg, providerIds[Len(providerIds) + 1 - i])]
      failed == {i \in 1..Len(providerIds) : results[i].status = "rejected"}
      values == [i \in 1..Len(providerIds) |-> results[i].value]
  IN
  IF failed # {} THEN {results[i] : i \in failed}
  ELSE {Fulfilled(SelectSeq(values, LAMBDA provider : provider # Null))}

\* _getProvidersIndividually: Promise.all over getProvider(id).  It rejects
\* with the rejection of whichever read fails first, and otherwise keeps the
\* non-null answers in id order.
GetProvidersIndividually(reg, providerIds) ==
  LET results == [i \in 1..Len(providerIds) |-> GetProvider(reg, providerIds[i])]
      failed == {i \in 1..Len(providerIds) : results[i].status = "rejected"}
      values == [i \in 1..Len(providerIds) |-> results[i].value]
  IN
  IF failed # {} THEN {results[i] : i \in failed}
  ELSE {Fulfilled(SelectSeq(values, LAMBDA provider : provider # Null))}

\* a variant without the catch block: a failure of the aggregated call is
\* passed on to the caller
GetProviders_NoFallback(reg, mc, providerIds) ==
  IF Len(providerIds) = 0 THEN {Fulfilled(<<>>)}
  ELSE {GetProvidersWithMulticall(reg, mc, providerIds)}

\* getProviders: the possible outcomes (one, unless several individual reads
\* fail with different errors)
GetProviders(reg, mc, providerIds) ==
  IF Len(providerIds) = 0 THEN {Fulfilled(<<>>)}
  ELSE
    LET result == GetProvidersWithMulticall(reg, mc, providerIds) IN
    IF result.status = "fulfilled" THEN {result}
    ELSE GetProvidersIndividually(reg, providerIds)

\* one request sent to the network
WireCall(fn, args) == [fn |-> fn, args |-> args]

\* the requests _getProvidersIndividually sends: getProvider for every id,
\* and getProviderWithProduct for every id whose record was read and is not
\* the zero record
IndividualWire(reg, providerIds) ==
  Flat([i \in 1..Len(providerIds) |->
          LET id == providerIds[i]
              call == ContractCall("getProvider", RegistryGetProvider(reg, id))
          IN
          <<WireCall("getProvider", <<id>>)>> \o
          (IF /\ call.status = "fulfilled"
              /\ call.value.info.serviceProvider # ZeroAddress
           THEN <<WireCall("getProviderWithProduct", <<id, 0>>)>>
           ELSE <<>>)])

\* the requests getProviders sends, in order: none for an empty list;
\* otherwise the network detection, the aggregate3 call when an address is
\* configured, and the individual reads when the aggregated path failed
GetProvidersWire(reg, mc, providerIds) ==
  IF Len(providerIds) = 0 THEN <<>>
  ELSE
    <<WireCall("getFilecoinNetworkType", <<>>)>> \o
    (IF Falsy(ResolveMulticall3Address(mc)) THEN <<>>
     ELSE <<WireCall("aggregate3", PrepareMulticallCalls(providerIds))>>) \o
    (IF GetProvidersWithMulticall(reg, mc, providerIds).status = "rejected"
     THEN IndividualWire(reg, providerIds)
     ELSE <<>>)

\* ------------------------------------------------------------------------
\* State
\* ------------------------------------------------------------------------

VARIABLES
  reg,               \* the registry contract's state
  fee,               \* the registry's current REGISTRATION_FEE
  approved,          \* the provider ids approved in WarmStorage
  balance,           \* the service provider's balance
  mc,                \* the Multicall3 environment of the service instance
  registryContract,  \* the instance's cached contract handle, "null" at first
  lastCall,          \* the lookup that completed last: [op, arg, out]
  synapse,           \* the outcome of Synapse.create and the instance it made
  listing,           \* the locals of the listing operation in progress
  rival,             \* the locals of a second listing running on the instance
  pageLog,           \* the page requests the listing issued, in order
  regChanged,        \* whether the registry was written to during the listing
  registration,      \* the locals of the registerProvider call in progress
  setup,             \* the locals of the setupProvider run in progress
  trace              \* the fee reads and the transactions submitted, in order;
                     \* for getProviders, the requests it sent

envVars == <<reg, mc, codec>>

chainVars == <<fee, approved, balance>>

lookupVars == <<lastCall, synapse>>

listingVars == <<listing, rival, pageLog, regChanged>>

writerVars == <<registration, setup, trace>>

vars ==
  <<reg, fee, approved, balance, mc, codec, registryContract, lastCall, synapse,
    listing, rival, pageLog, regChanged, registration, setup, trace>>

\* a variant that builds a new handle on every use
GetRegistryContract_Recreates(handle) ==
  IF handle = "null" THEN "contract" ELSE "contract (rebuilt)"

\* _getRegistryContract: the handle is created on first use and kept
GetRegistryContract(handle) == IF handle = "null" THEN "contract" ELSE handle

NoCall == [op |-> "none", arg |-> <<>>, out |-> Fulfilled(<<>>)]

\* before Synapse.create has run
NoSynapse ==
  [status |-> "none", options |-> Null, chain |-> Null, instance |-> Null,
   error |-> "", effects |-> <<>>]

NoRegistration ==
  [pc |-> "idle", invocation |-> 0, signer |-> ZeroAddress, info |-> Null,
   registrationFee |-> 0, productData |-> [encoded |-> Null],
   out |-> Fulfilled(Null)]

NoSetup ==
  [pc |-> "idle", run |-> 0, config |-> Null, spAddress |-> ZeroAddress,
   isRegistered |-> FALSE, providerInfo |-> Null, providerId |-> 0,
   out |-> Fulfilled(Null)]

NoListing ==
  [kind |-> "none", pc |-> "idle", offset |-> 0, hasMore |-> FALSE,
   providerPromises |-> <<>>, out |-> Fulfilled(<<>>)]

\* ------------------------------------------------------------------------
\* Lookups against a fixed registry
\* ------------------------------------------------------------------------

\* the id lists of length at most n over 1..MaxProviderId
IdLists(n) == UNION {[1..len -> 1..MaxProviderId] : len \in 0..n}

LookupRegistries ==
  {[n |-> MaxProviderId, over |-> over] :
     over \in {f \in [1..MaxProviderId ->
                        UNION {EntrySamples(id) : id \in 1..MaxProviderId}] :
                 \A id \in 1..MaxProviderId : f[id] \in EntrySamples(id)}}

\* the chain state of the scenarios that submit no transaction
Signers == {AddressOf(1), AddressOf(2)}

ChainIdle ==
  fee = 0 /\ approved = {} /\ balance = [a \in Signers |-> 0]

ListingIdle ==
  listing = NoListing /\ rival = NoListing /\ pageLog = <<>> /\ regChanged = FALSE

WritersIdle ==
  registration = NoRegistration /\ setup = NoSetup /\ trace = <<>>

LookupInit ==
  /\ reg \in LookupRegistries
  /\ mc \in MulticallSamples
  /\ codec = StrictCodec
  /\ registryContract = "null"
  /\ lastCall = NoCall
  /\ synapse = NoSynapse
  /\ ChainIdle
  /\ ListingIdle
  /\ WritersIdle

CallGetProviders ==
  /\ lastCall.op = "none"
  /\ \E ids \in IdLists(MaxBatch) :
       \E out \in GetProviders(reg, mc, ids) :
         /\ lastCall' = [op |-> "getProviders", arg |-> ids, out |-> out]
         /\ registryContract' =
              IF /\ ids # <<>>
                 /\ GetProvidersWithMulticall(reg, mc, ids).status = "rejected"
              THEN GetRegistryContract(registryContract)
              ELSE registryContract
         /\ trace' = GetProvidersWire(reg, mc, ids)
         /\ UNCHANGED <<envVars, chainVars, synapse, listingVars, registration,
                        setup>>

CallGetProvider ==
  \E id \in 1..(MaxProviderId + 1) :
    /\ lastCall.op = "none"
    /\ lastCall' = [op |-> "getProvider", arg |-> id, out |-> GetProvider(reg, id)]
    /\ registryContract' = GetRegistryContract(registryContract)
    /\ UNCHANGED <<envVars, chainVars, synapse, listingVars, writerVars>>

\* the addresses a scenario looks up: the zero address, every controlling
\* address and one that controls no record
LookupAddresses ==
  {ZeroAddress} \cup {AddressOf(id) : id \in 1..(MaxProviderId + 1)}

\* what a read leaves on the wire: the registry's answer, or a transport
\* failure
WireResults(answer) == {answer, TransportFailure}

CallGetProviderByAddress ==
  /\ lastCall.op = "none"
  /\ \E address \in LookupAddresses, failed \in BOOLEAN :
       /\ lastCall' =
            [op |-> "getProviderByAddress",
             arg |-> [address |-> address, failed |-> failed],
             out |-> IF failed
                     THEN GetProviderByAddressOn(reg, TransportFailure,
                                                 TransportFailure)
                     ELSE GetProviderByAddress(reg, address)]
       /\ registryContract' = GetRegistryContract(registryContract)
       /\ UNCHANGED <<envVars, chainVars, synapse, listingVars, writerVars>>

CallGetProviderIdByAddress ==
  /\ lastCall.op = "none"
  /\ \E address \in LookupAddresses :
       \E result \in WireResults(RegistryGetProviderIdByAddress(reg, address)) :
         /\ lastCall' =
              [op |-> "getProviderIdByAddress",
               arg |-> [address |-> address, failed |-> ~result.success],
               out |-> GetProviderIdByAddress(result)]
         /\ registryContract' = GetRegistryContract(registryContract)
         /\ UNCHANGED <<envVars, chainVars, synapse, listingVars, writerVars>>

CallIsProviderActive ==
  /\ lastCall.op = "none"
  /\ \E id \in 1..(MaxProviderId + 1) :
       \E result \in WireResults(RegistryIsProviderActive(reg, id)) :
         /\ lastCall' =
              [op |-> "isProviderActive",
               arg |-> [id |-> id, failed |-> ~result.success],
               out |-> IsProviderActive(result)]
         /\ registryContract' = GetRegistryContract(registryContract)
         /\ UNCHANGED <<envVars, chainVars, synapse, listingVars, writerVars>>

CallGetPDPService ==
  \E id \in 1..(MaxProviderId + 1) :
    /\ lastCall.op = "none"
    /\ lastCall' = [op |-> "getPDPService", arg |-> id,
                    out |-> GetPDPService(reg, id)]
    /\ registryContract' = GetRegistryContract(registryContract)
    /\ UNCHANGED <<envVars, chainVars, synapse, listingVars, writerVars>>

\* the caller takes the answer; the service keeps nothing of it
CallReturn ==
  /\ lastCall.op # "none"
  /\ lastCall' = NoCall
  /\ trace' = <<>>
  /\ UNCHANGED <<envVars, chainVars, registryContract, synapse, listingVars,
                 registration, setup>>

LookupNext ==
  \/ CallGetProviders
  \/ CallGetProvider
  \/ CallGetProviderByAddress
  \/ CallGetPDPService
  \/ CallGetProviderIdByAddress
  \/ CallIsProviderActive
  \/ CallReturn

SpecLookup == LookupInit /\ [][LookupNext]_vars

\* ------------------------------------------------------------------------
\* Claims about the batch lookup and the point lookups (SpecLookup)
\* ------------------------------------------------------------------------

WorkingMulticall ==
  [configured |-> "0xMulticall3", networkDefault |-> "undefined", throws |-> FALSE]

\* the last call was getProviders on a non-empty list
BatchCalled == lastCall.op = "getProviders" /\ lastCall.arg # <<>>

\* ... and the aggregated call answered it
AggregatedPathUsed ==
  /\ BatchCalled
  /\ GetProvidersWithMulticall(reg, mc, lastCall.arg).status = "fulfilled"

\* ... and the aggregated call failed, so the per-id fallback answered it
FallbackPathUsed ==
  /\ BatchCalled
  /\ GetProvidersWithMulticall(reg, mc, lastCall.arg).status = "rejected"

GetSlotSucceeds(id) == RegistryGetProvider(reg, id).success

GetSlotDecodes(id) ==
  DecodeFunctionResult("getProvider",
                       RegistryGetProvider(reg, id).returnData).status = "fulfilled"

ProductSlotSucceeds(id) == RegistryGetProviderWithProduct(reg, id).success

IdsOf(providers) == [k \in 1..Len(providers) |-> providers[k].id]

\* C2 (as claimed): when the aggregated call fails, getProviders returns what
\* it returns when the aggregated call succeeds, for every id list and every
\* registry state.
C2_FallbackEqualsAggregated ==
  FallbackPathUsed =>
    lastCall.out \in GetProviders(reg, WorkingMulticall, lastCall.arg)

\* what the aggregated call returns for the ids of the list, each requested
\* alone, one after the other
EachAlone(ids) ==
  Flat([i \in 1..Len(ids) |->
          GetProvidersWithMulticall(reg, mc, <<ids[i]>>).value])

ReturnedWithoutProducts(id) ==
  \E k \in 1..Len(lastCall.out.value) :
    /\ lastCall.out.value[k].id = id
    /\ DOMAIN lastCall.out.value[k].products = {}

\* C3 (as claimed): in the aggregated path, a requested id whose getProvider
\* slot reports failure is absent from the result and every other id is
\* returned as it is when requested alone; a requested id whose getProvider
\* slot reports success and whose product slot reports failure is present
\* with an empty products map.
C3_SlotFlagsDecide ==
  AggregatedPathUsed =>
    /\ lastCall.out.value = EachAlone(lastCall.arg)
    /\ \A i \in 1..Len(lastCall.arg) :
         LET id == lastCall.arg[i] IN
         /\ ~GetSlotSucceeds(id) => id \notin Range(IdsOf(lastCall.out.value))
         /\ (GetSlotSucceeds(id) /\ ~ProductSlotSucceeds(id))
              => ReturnedWithoutProducts(id)

GetSlotUsable(id) == GetSlotSucceeds(id) /\ GetSlotDecodes(id)

\* C3 (amended): in the aggregated path, a requested id whose getProvider
\* slot reports failure, or holds data that does not decode, is absent from
\* the result and every other id is returned as it is when requested alone;
\* a requested id whose getProvider slot reports success with data that
\* decodes and whose product slot reports failure is present with an empty
\* products map. The returned ids are the usable ones, in request order.
C3_SlotIsolation ==
  AggregatedPathUsed =>
    /\ lastCall.out.value = EachAlone(lastCall.arg)
    /\ IdsOf(lastCall.out.value) = SelectSeq(lastCall.arg, GetSlotUsable)
    /\ \A i \in 1..Len(lastCall.arg) :
         LET id == lastCall.arg[i] IN
         /\ ~GetSlotUsable(id) => id \notin Range(IdsOf(lastCall.out.value))
         /\ (GetSlotUsable(id) /\ ~ProductSlotSucceeds(id))
              => ReturnedWithoutProducts(id)

\* C3 witness: a batch of two ids answered by the aggregated call, the first
\* id dropped for its failed getProvider slot, the second returned without
\* products for its failed product slot.
C3_Witness ==
  /\ AggregatedPathUsed
  /\ Len(lastCall.arg) = 2
  /\ ~GetSlotSucceeds(lastCall.arg[1])
  /\ GetSlotUsable(lastCall.arg[2])
  /\ ~ProductSlotSucceeds(lastCall.arg[2])
  /\ Len(lastCall.out.value) = 1
  /\ lastCall.out.value[1].id = lastCall.arg[2]
  /\ DOMAIN lastCall.out.value[1].products = {}

\* the calls of the aggregate3 requests the last getProviders sent
BatchesSent ==
  {trace[k].args : k \in {j \in 1..Len(trace) : trace[j].fn = "aggregate3"}}

\* the record, if any, the aggregated path builds for the id at position i
\* from the two result slots at positions 2i - 1 and 2i alone
RecordFromOwnSlots(ids, results, i) ==
  ProcessMulticallSlot(<<ids[i]>>, <<results[2 * i - 1], results[2 * i]>>, 1)

\* C23: the batch sent for n ids has exactly 2n calls, all to the registry
\* address with allowFailure = true; counted from 1, call 2i - 1 is
\* getProvider(ids[i]) and call 2i is getProviderWithProduct(ids[i], 0); and
\* the result is built, id by id, from the two slots of that id alone, so a
\* returned record carries the stored data of its own id.
C23_TwoCallsPerIdInOrder ==
  lastCall.op = "getProviders" =>
    LET ids == lastCall.arg IN
    /\ \A calls \in BatchesSent :
         /\ Len(calls) = 2 * Len(ids)
         /\ \A k \in 1..Len(calls) :
              calls[k].target = RegistryAddress /\ calls[k].allowFailure
         /\ \A i \in 1..Len(ids) :
              /\ calls[2 * i - 1].callData = [fn |-> "getProvider", args |-> <<ids[i]>>]
              /\ calls[2 * i].callData =
                   [fn |-> "getProviderWithProduct", args |-> <<ids[i], 0>>]
         /\ AggregatedPathUsed =>
              lastCall.out.value =
                Flat([i \in 1..Len(ids) |->
                        RecordFromOwnSlots(ids, Aggregate3(reg, mc, calls).value, i)])
    /\ AggregatedPathUsed =>
         /\ Cardinality(BatchesSent) = 1
         /\ \A k \in 1..Len(lastCall.out.value) :
              LET record == lastCall.out.value[k] IN
              /\ record.serviceProvider = Entry(reg, record.id).info.serviceProvider
              /\ DOMAIN record.products # {} =>
                   ProductSlotSucceeds(record.id)

\* C23 witness: the aggregated call has answered the list <<2, 1>> with the
\* records of provider 2 and provider 1, from a batch of four calls.
C23_Witness ==
  /\ AggregatedPathUsed
  /\ lastCall.arg = <<2, 1>>
  /\ \E calls \in BatchesSent :
       /\ Len(calls) = 4
       /\ calls[3].callData = [fn |-> "getProvider", args |-> <<1>>]
  /\ IdsOf(lastCall.out.value) = <<2, 1>>
  /\ lastCall.out.value[1].serviceProvider = AddressOf(2)

ProductSlotDecodes(id) ==
  DecodeFunctionResult("getProviderWithProduct",
                       RegistryGetProviderWithProduct(reg, id).returnData).status
    = "fulfilled"

\* a slot that reports success and holds data that does not decode
GetSlotUndecodable(id) == GetSlotSucceeds(id) /\ ~GetSlotDecodes(id)

ProductSlotUndecodable(id) == ProductSlotSucceeds(id) /\ ~ProductSlotDecodes(id)

\* C18 (as claimed): in the aggregated path, a requested id whose getProvider
\* slot or product slot holds data that does not decode is absent from the
\* result, every other id is returned as when requested alone, and the batch
\* is not aborted.
C18_UndecodableIdOmitted ==
  AggregatedPathUsed =>
    /\ lastCall.out.status = "fulfilled"
    /\ lastCall.out.value = EachAlone(lastCall.arg)
    /\ \A i \in 1..Len(lastCall.arg) :
         (GetSlotUndecodable(lastCall.arg[i]) \/ ProductSlotUndecodable(lastCall.arg[i]))
           => lastCall.arg[i] \notin Range(IdsOf(lastCall.out.value))

\* C18 (amended): in the aggregated path the batch is never aborted by data
\* that does not decode. A requested id whose getProvider slot holds such
\* data is absent from the result; a requested id whose getProvider slot is
\* usable and whose product slot holds such data is returned, with an empty
\* products map; every id is returned as it is when requested alone.
C18_UndecodableSlotsIsolated ==
  AggregatedPathUsed =>
    /\ lastCall.out.status = "fulfilled"
    /\ lastCall.out.value = EachAlone(lastCall.arg)
    /\ \A i \in 1..Len(lastCall.arg) :
         LET id == lastCall.arg[i] IN
         /\ GetSlotUndecodable(id) => id \notin Range(IdsOf(lastCall.out.value))
         /\ (GetSlotUsable(id) /\ ProductSlotUndecodable(id))
              => ReturnedWithoutProducts(id)

\* C18 witness: a batch of two ids answered by the aggregated call, the first
\* with an undecodable getProvider slot and omitted, the second with an
\* undecodable product slot and returned without products.
C18_Witness ==
  /\ AggregatedPathUsed
  /\ Len(lastCall.arg) = 2
  /\ GetSlotUndecodable(lastCall.arg[1])
  /\ GetSlotUsable(lastCall.arg[2])
  /\ ProductSlotUndecodable(lastCall.arg[2])
  /\ IdsOf(lastCall.out.value) = <<lastCall.arg[2]>>
  /\ DOMAIN lastCall.out.value[1].products = {}

\* C4 (as claimed): no lookup raises an exception for, or returns, a record
\* whose serviceProvider is the zero address: getProvider,
\* getProviderByAddress and getPDPService answer null, getProviders omits it.
C4_ZeroAddressIsNotFound ==
  /\ lastCall.op = "getProviders" /\ lastCall.out.status = "fulfilled"
       => \A k \in 1..Len(lastCall.out.value) :
            lastCall.out.value[k].serviceProvider # ZeroAddress
  /\ lastCall.op \in {"getProvider", "getProviderByAddress"}
       /\ lastCall.out.status = "fulfilled" /\ lastCall.out.value # Null
       => lastCall.out.value.serviceProvider # ZeroAddress
  /\ lastCall.op = "getProvider"
       /\ RegistryGetProvider(reg, lastCall.arg).success
       /\ GetSlotDecodes(lastCall.arg)
       /\ Entry(reg, lastCall.arg).info.serviceProvider = ZeroAddress
       => lastCall.out = Fulfilled(Null)
  /\ lastCall.op = "getPDPService"
       /\ Entry(reg, lastCall.arg).info.serviceProvider = ZeroAddress
       => lastCall.out = Fulfilled(Null)

\* C5 (as claimed): getProviders never rejects, whatever per-id reads fail,
\* in the aggregated path and in the fallback path.
C5_BatchNeverRejects ==
  lastCall.op = "getProviders" => lastCall.out.status = "fulfilled"

\* C6: when no Multicall3 address is configured, or the aggregate3 call
\* throws, getProviders answers with an outcome of the per-id fallback and
\* never with the aggregator's error.
C6_AggregatorFailureHidden ==
  (BatchCalled /\ (Falsy(ResolveMulticall3Address(mc)) \/ mc.throws)) =>
    /\ lastCall.out \in GetProvidersIndividually(reg, lastCall.arg)
    /\ lastCall.out \notin {Rejected("No Multicall3 address configured for network"),
                            Rejected("aggregate3 call failed")}

\* C6 witness: no Multicall3 address is configured and getProviders returned
\* both requested providers.
C6_Witness ==
  /\ BatchCalled
  /\ Falsy(ResolveMulticall3Address(mc))
  /\ lastCall.out.status = "fulfilled"
  /\ Len(lastCall.out.value) = 2

\* the id has no provider record: it is beyond the stored ids, or the
\* registry answers its read with 'Provider not found' or an all-zero record
AbsentId(id) ==
  \/ id \notin 1..reg.n
  \/ Entry(reg, id).get = "notfound"
  \/ Entry(reg, id).get = "ok" /\ Entry(reg, id).info.serviceProvider = ZeroAddress

\* the address controls no provider record
AbsentAddress(address) ==
  RegistryGetProviderIdByAddress(reg, address).returnData.value = 0

\* C11 (as claimed): getProvider, getProviderByAddress and
\* getProviderIdByAddress answer an absent provider with a value (null, null
\* and 0) and never with an exception, also when the registry reverts the
\* read of an id that does not exist.
C11_AbsentIsAValue ==
  /\ (lastCall.op = "getProvider" /\ AbsentId(lastCall.arg))
       => lastCall.out = Fulfilled(Null)
  /\ (lastCall.op = "getProviderByAddress" /\ ~lastCall.arg.failed
        /\ AbsentAddress(lastCall.arg.address))
       => lastCall.out = Fulfilled(Null)
  /\ (lastCall.op = "getProviderIdByAddress" /\ ~lastCall.arg.failed
        /\ AbsentAddress(lastCall.arg.address))
       => lastCall.out = Fulfilled(0)

\* the reason the failed registry call of the last single-call operation
\* carries
FailureReason ==
  IF lastCall.op = "getPDPService"
  THEN RegistryGetProviderWithProduct(reg, lastCall.arg).returnData.value
  ELSE TransportFailure.returnData.value

\* the registry call of the last single-call operation reverted or failed in
\* transport
SingleCallFailed ==
  \/ lastCall.op = "getPDPService"
       /\ ~RegistryGetProviderWithProduct(reg, lastCall.arg).success
  \/ lastCall.op \in {"getProviderByAddress", "getProviderIdByAddress",
                      "isProviderActive"}
       /\ lastCall.arg.failed

\* C12 (as claimed): a revert or transport failure of the registry call of a
\* single-call operation (getProviderByAddress, getPDPService,
\* getProviderIdByAddress, isProviderActive) reaches the caller as an error
\* that carries the failure reason, never as a normal return value.
C12_SingleCallFailureSurfaces ==
  SingleCallFailed => lastCall.out = Rejected(FailureReason)

\* the product the registry stores for the id is read without failure, from
\* a record with a controlling address, and its capability list is non-empty,
\* index-aligned, without repeated keys and well-formed in every numeric value
ProductWellFormed(id) ==
  LET r == RegistryGetProviderWithProduct(reg, id)
      p == Entry(reg, id).product
  IN
  /\ r.success
  /\ r.returnData.fn = "getProviderWithProduct"
  /\ Entry(reg, id).info.serviceProvider # ZeroAddress
  /\ p.capabilityKeys # <<>>
  /\ Len(p.capabilityKeys) = Len(p.capabilityValues)
  /\ NoDuplicates(p.capabilityKeys)
  /\ \A i \in 1..Len(p.capabilityKeys) :
       p.capabilityKeys[i] \in NumericKeys
         => p.capabilityValues[i] \in DOMAIN NumberOf

\* the value stored under a key the list holds
StoredValue(p, key) ==
  p.capabilityValues[CHOOSE i \in 1..Len(p.capabilityKeys) :
                       p.capabilityKeys[i] = key]

\* the offering holds, for every recognized key, the stored value when the
\* key is present and the zero value when it is missing
OfferingMatches(offering, p) ==
  /\ \A key \in TextKeys :
       offering[key] = IF key \in Range(p.capabilityKeys)
                       THEN StoredValue(p, key) ELSE ""
  /\ \A key \in NumericKeys :
       offering[key] = IF key \in Range(p.capabilityKeys)
                       THEN NumberOf[StoredValue(p, key)] ELSE 0

SomeRecognizedKeyMissing(p) ==
  (TextKeys \cup NumericKeys) \ Range(p.capabilityKeys) # {}

\* C13: for a provider whose PDP product has a non-empty, well-formed
\* capability list that lacks some recognized keys, getPDPService returns a
\* non-null result without error: isActive is the stored flag, every present
\* recognized field has its stored value, every missing one its zero value.
C13_MissingKeysLeftAtZero ==
  (/\ lastCall.op = "getPDPService"
   /\ ProductWellFormed(lastCall.arg)
   /\ SomeRecognizedKeyMissing(Entry(reg, lastCall.arg).product)) =>
    /\ lastCall.out.status = "fulfilled"
    /\ lastCall.out.value # Null
    /\ lastCall.out.value.isActive = Entry(reg, lastCall.arg).product.isActive
    /\ OfferingMatches(lastCall.out.value.offering,
                       Entry(reg, lastCall.arg).product)

\* C13 witness: getPDPService answered for an inactive product that has a
\* service URL and a minimum piece size but no location: isActive is false,
\* the URL and the size are the stored ones and the location is empty.
C13_Witness ==
  /\ lastCall.op = "getPDPService"
  /\ ProductWellFormed(lastCall.arg)
  /\ Entry(reg, lastCall.arg).product = InactiveProduct
  /\ lastCall.out.value # Null
  /\ ~lastCall.out.value.isActive
  /\ lastCall.out.value.offering.serviceURL = "https://x"
  /\ lastCall.out.value.offering.minPieceSizeInBytes = 127
  /\ lastCall.out.value.offering.location = ""

SomeKeyUnknown(p) ==
  Range(p.capabilityKeys) \ (TextKeys \cup NumericKeys) # {}

\* the map holds every key of the list, mapped to the value at its index
HoldsEveryPair(capabilities, p) ==
  /\ DOMAIN capabilities = Range(p.capabilityKeys)
  /\ \A i \in 1..Len(p.capabilityKeys) :
       capabilities[p.capabilityKeys[i]] = p.capabilityValues[i]

\* C14: a capability list that holds keys the codec does not recognize (and
\* is otherwise well-formed) still yields the product, from getPDPService and
\* from the batch lookup, and the product's capabilities map holds every key,
\* recognized or not, mapped to the value at the same index.
C14_UnknownKeysPassThrough ==
  /\ (/\ lastCall.op = "getPDPService"
      /\ ProductWellFormed(lastCall.arg)
      /\ SomeKeyUnknown(Entry(reg, lastCall.arg).product)) =>
       /\ lastCall.out.status = "fulfilled"
       /\ lastCall.out.value # Null
       /\ HoldsEveryPair(lastCall.out.value.capabilities,
                         Entry(reg, lastCall.arg).product)
  /\ (lastCall.op = "getProviders" /\ lastCall.out.status = "fulfilled") =>
       \A k \in 1..Len(lastCall.out.value) :
         LET provider == lastCall.out.value[k] IN
         (ProductWellFormed(provider.id)
            /\ SomeKeyUnknown(Entry(reg, provider.id).product)) =>
           /\ "PDP" \in DOMAIN provider.products
           /\ HoldsEveryPair(provider.products.PDP.capabilities,
                             Entry(reg, provider.id).product)

\* C14 witness: the aggregated batch lookup returned a provider whose product
\* carries the unknown key "region", with that key in its capabilities map.
C14_Witness ==
  /\ AggregatedPathUsed
  /\ Len(lastCall.out.value) > 0
  /\ Entry(reg, lastCall.out.value[1].id).product = ExtendedProduct
  /\ ProductWellFormed(lastCall.out.value[1].id)
  /\ lastCall.out.value[1].products.PDP.capabilities["region"] = "us-east"

\* ------------------------------------------------------------------------
\* The registry's paginated reads
\* ------------------------------------------------------------------------

Min(a, b) == IF a <= b THEN a ELSE b

\* the ids the registry counts as active providers, in id order
ActiveIds(r) ==
  SelectSeq([id \in 1..r.n |-> id],
            LAMBDA id : /\ Entry(r, id).info.isActive
                        /\ Entry(r, id).info.serviceProvider # ZeroAddress)

\* the ids the registry indexes under the PDP product type, in id order; a
\* deactivated provider stays indexed while its product data is stored
ProductTypeIds(r) ==
  SelectSeq([id \in 1..r.n |-> id],
            LAMBDA id : /\ Entry(r, id).product.capabilityKeys # <<>>
                        /\ Entry(r, id).info.serviceProvider # ZeroAddress)

\* one page of an id list: (ids, hasMore)
PageOf(ids, offset, limit) ==
  [providerIds |-> SubSeq(ids, offset + 1, Min(offset + limit, Len(ids))),
   hasMore |-> offset + limit < Len(ids)]

RegistryGetAllActiveProviders(r, offset, limit) ==
  PageOf(ActiveIds(r), offset, limit)

RegistryGetProvidersByProductType(r, offset, limit) ==
  PageOf(ProductTypeIds(r), offset, limit)

\* removeProvider as the registry executes it: the record is kept, inactive,
\* and its product data is cleared
RegistryRemoveProvider(r, id) ==
  [r EXCEPT !.over =
     (id :> [Entry(r, id) EXCEPT !.info.isActive = FALSE, !.product = NoProduct])
       @@ r.over]

\* ------------------------------------------------------------------------
\* SPRegistryService: listings
\* ------------------------------------------------------------------------

\* const pageSize = 50 (getAllActiveProviders)
PageSize == 50

\* const limit = 50 (getActiveProvidersByProductType)
Limit == 50

PageFailure == Rejected("page request failed")

\* a variant whose by-type listing asks for pages twice as long
PageLimit_ByTypeDoubled(kind) == IF kind = "all" THEN PageSize ELSE 2 * Limit

PageLimit(kind) == IF kind = "all" THEN PageSize ELSE Limit

\* a variant whose cursor skips one id per page
NextOffset_SkipsOne(offset, limit) == offset + limit + 1

\* offset += pageSize
NextOffset(offset, limit) == offset + limit

\* a variant that stops paging at a failed page request and goes on to return
\* the pages it has
LoopStep_SwallowsPageFailure(l, page) ==
  IF page.status = "rejected" THEN [l EXCEPT !.pc = "join", !.hasMore = FALSE]
  ELSE
    [l EXCEPT
       !.providerPromises =
         IF Len(page.value.providerIds) > 0
         THEN Append(@, [ids |-> page.value.providerIds, state |-> "pending",
                         value |-> <<>>, order |-> 0])
         ELSE @,
       !.hasMore = page.value.hasMore,
       !.offset = NextOffset(@, PageLimit(l.kind)),
       !.pc = IF page.value.hasMore THEN "loop" ELSE "join"]

\* a variant that awaits the detail batch it has just started before it asks
\* for the next page
LoopStep_AwaitsBatch(l, page) ==
  IF page.status = "rejected" THEN [l EXCEPT !.pc = "rejected", !.out = page]
  ELSE
    [l EXCEPT
       !.providerPromises =
         IF Len(page.value.providerIds) > 0
         THEN Append(@, [ids |-> page.value.providerIds, state |-> "pending",
                         value |-> <<>>, order |-> 0])
         ELSE @,
       !.hasMore = page.value.hasMore,
       !.offset = NextOffset(@, PageLimit(l.kind)),
       !.pc = IF ~page.value.hasMore THEN "join"
              ELSE IF Len(page.value.providerIds) > 0 THEN "awaitBatch"
              ELSE "loop"]

\* a variant that starts a detail batch for every page, empty or not
LoopStep_BatchForEveryPage(l, page) ==
  IF page.status = "rejected" THEN [l EXCEPT !.pc = "rejected", !.out = page]
  ELSE
    [l EXCEPT
       !.providerPromises =
         Append(@, [ids |-> page.value.providerIds, state |-> "pending",
                    value |-> <<>>, order |-> 0]),
       !.hasMore = page.value.hasMore,
       !.offset = NextOffset(@, PageLimit(l.kind)),
       !.pc = IF page.value.hasMore THEN "loop" ELSE "join"]

\* a variant that asks for one more page after a non-empty last page
LoopStep_AsksPastLastPage(l, page) ==
  IF page.status = "rejected" THEN [l EXCEPT !.pc = "rejected", !.out = page]
  ELSE
    LET more == page.value.hasMore \/ Len(page.value.providerIds) > 0 IN
    [l EXCEPT
       !.providerPromises =
         IF Len(page.value.providerIds) > 0
         THEN Append(@, [ids |-> page.value.providerIds, state |-> "pending",
                         value |-> <<>>, order |-> 0])
         ELSE @,
       !.hasMore = more,
       !.offset = NextOffset(@, PageLimit(l.kind)),
       !.pc = IF more THEN "loop" ELSE "join"]

\* one turn of the while loop, given the answer to the page request: a failed
\* request rejects the listing; otherwise a non-empty page starts a detail
\* batch without awaiting it, and the cursor moves on
LoopStep(l, page) ==
  IF page.status = "rejected" THEN [l EXCEPT !.pc = "rejected", !.out = page]
  ELSE
    [l EXCEPT
       !.providerPromises =
         IF Len(page.value.providerIds) > 0
         THEN Append(@, [ids |-> page.value.providerIds, state |-> "pending",
                         value |-> <<>>, order |-> 0])
         ELSE @,
       !.hasMore = page.value.hasMore,
       !.offset = NextOffset(@, PageLimit(l.kind)),
       !.pc = IF page.value.hasMore THEN "loop" ELSE "join"]

\* a variant that returns every fetched record
FilterActive_KeepsAll(providers) == providers

\* allProviders.filter((provider) => provider.active)
FilterActive(providers) ==
  SelectSeq(providers, LAMBDA provider : provider.active)

\* the detail batches that have settled so far
SettledCount(l) ==
  Cardinality({k \in 1..Len(l.providerPromises) :
                 l.providerPromises[k].state # "pending"})

\* a variant that hands the batches on in the order they completed
PromiseAll_CompletionOrder(providerPromises) ==
  [j \in 1..Len(providerPromises) |->
     providerPromises[CHOOSE k \in 1..Len(providerPromises) :
                        providerPromises[k].order = j].value]

\* a variant whose batches push into one list they share
PromiseAll_SharedList(providerPromises) ==
  [j \in 1..Len(providerPromises) |->
     Flat([k \in 1..Len(providerPromises) |-> providerPromises[k].value])]

\* await Promise.all(providerPromises): the values in the order of the
\* promises, whatever the order they settled in
PromiseAll(providerPromises) ==
  [k \in 1..Len(providerPromises) |-> providerPromises[k].value]

\* the value returned once Promise.all has every batch
JoinResult(kind, providerBatches) ==
  IF kind = "all" THEN Flat(providerBatches)
  ELSE FilterActive(Flat(providerBatches))

\* ------------------------------------------------------------------------
\* Listings: scenarios and actions
\* ------------------------------------------------------------------------

\* most pages a scenario's registry fills
MaxPages == 2

\* registry sizes around the page boundaries
ListingSizes ==
  {0, 1} \cup {k * PageSize + d : k \in 1..MaxPages, d \in {0, 1}}

\* the ids a scenario may store a special entry for: the first id, and the ids
\* on both sides of the first page boundary
SpecialIds(n) == {1, PageSize, PageSize + 1} \cap 1..n

ListingEntrySamples(id) ==
  LET h == HealthyEntry(id) IN
  { [h EXCEPT !.info.isActive = FALSE, !.product = InactiveProduct],
    [h EXCEPT !.info.isActive = FALSE, !.product = NoProduct],
    [h EXCEPT !.get = "reverted"] }

ListingRegistries ==
  UNION {
    {[n |-> n, over |-> <<>>]} \cup
    UNION {{[n |-> n, over |-> id :> e] : e \in ListingEntrySamples(id)} :
             id \in SpecialIds(n)}
    : n \in ListingSizes }

ListingMulticallSamples ==
  {m \in MulticallSamples : m.configured = "0xMulticall3" /\ ~m.throws}
    \cup {m \in MulticallSamples : Falsy(ResolveMulticall3Address(m))}

ListingInit ==
  /\ reg \in ListingRegistries
  /\ mc \in ListingMulticallSamples
  /\ codec = StrictCodec
  /\ registryContract = "null"
  /\ lastCall = NoCall
  /\ synapse = NoSynapse
  /\ ChainIdle
  /\ ListingIdle
  /\ WritersIdle

\* getAllActiveProviders() or getActiveProvidersByProductType(PDP) is called
ListingStart ==
  \E kind \in {"all", "byType"} :
    /\ listing.pc = "idle"
    /\ listing' = [NoListing EXCEPT !.kind = kind, !.pc = "loop", !.hasMore = TRUE]
    /\ registryContract' = GetRegistryContract(registryContract)
    /\ UNCHANGED <<envVars, chainVars, lookupVars, rival, pageLog, regChanged,
                   writerVars>>

\* the awaited page request is answered, or fails
ListingFetchPage ==
  /\ listing.pc = "loop"
  /\ listing.hasMore
  /\ \E page \in
         {PageFailure,
          Fulfilled(IF listing.kind = "all"
                    THEN RegistryGetAllActiveProviders(reg, listing.offset, PageSize)
                    ELSE RegistryGetProvidersByProductType(reg, listing.offset, Limit))} :
       /\ listing' = LoopStep(listing, page)
       /\ pageLog' = Append(pageLog, [offset |-> listing.offset,
                                      limit |-> PageLimit(listing.kind),
                                      ok |-> page.status = "fulfilled",
                                      hasMore |-> /\ page.status = "fulfilled"
                                                  /\ page.value.hasMore,
                                      size |-> IF page.status = "fulfilled"
                                               THEN Len(page.value.providerIds)
                                               ELSE 0])
  /\ UNCHANGED <<envVars, chainVars, registryContract, lookupVars, rival, regChanged,
                 writerVars>>

\* a pending detail batch, getProviders(ids), settles
ListingBatchSettles ==
  \E k \in 1..Len(listing.providerPromises) :
    /\ listing.providerPromises[k].state = "pending"
    /\ \E out \in GetProviders(reg, mc, listing.providerPromises[k].ids) :
      /\ listing' = [listing EXCEPT
                       !.providerPromises[k].state = out.status,
                       !.providerPromises[k].value = out.value,
                       !.providerPromises[k].order = SettledCount(listing) + 1]
      /\ registryContract' = GetRegistryContract(registryContract)
      /\ UNCHANGED <<envVars, chainVars, lookupVars, rival, pageLog, regChanged,
                     writerVars>>

\* Promise.all(providerPromises) has every batch: flatten and return
ListingJoin ==
  /\ listing.pc = "join"
  /\ \A k \in 1..Len(listing.providerPromises) :
       listing.providerPromises[k].state = "fulfilled"
  /\ listing' =
       [listing EXCEPT
          !.pc = "done",
          !.out = Fulfilled(JoinResult(listing.kind,
                                       PromiseAll(listing.providerPromises)))]
  /\ UNCHANGED <<envVars, chainVars, registryContract, lookupVars, rival, pageLog,
                 regChanged, writerVars>>

\* Promise.all(providerPromises) rejects as soon as a batch has rejected
ListingJoinRejects ==
  \E k \in 1..Len(listing.providerPromises) :
    /\ listing.pc = "join"
    /\ listing.providerPromises[k].state = "rejected"
    /\ listing' = [listing EXCEPT
                     !.pc = "rejected",
                     !.out = Rejected(listing.providerPromises[k].value)]
    /\ UNCHANGED <<envVars, chainVars, registryContract, lookupVars, rival, pageLog,
                 regChanged, writerVars>>

\* another client removes a provider while the listing runs
ListingRegistryWrite ==
  \E id \in {1, reg.n} \cap 1..reg.n :
    /\ listing.pc \in {"loop", "join"}
    /\ ~regChanged
    /\ Entry(reg, id).get = "ok"
    /\ Entry(reg, id).info.isActive
    /\ reg' = RegistryRemoveProvider(reg, id)
    /\ regChanged' = TRUE
    /\ UNCHANGED <<mc, codec, chainVars, registryContract, lookupVars, listing,
                   rival, pageLog, writerVars>>

ListingNext ==
  \/ ListingStart
  \/ ListingFetchPage
  \/ ListingBatchSettles
  \/ ListingJoin
  \/ ListingJoinRejects
  \/ ListingRegistryWrite

SpecListing == ListingInit /\ [][ListingNext]_vars

\* ------------------------------------------------------------------------
\* Claims about the listings (SpecListing)
\* ------------------------------------------------------------------------

\* every id of the list is a stored record that reads without failure
AllReadable(ids) ==
  \A i \in 1..Len(ids) :
    /\ Entry(reg, ids[i]).get = "ok"
    /\ Entry(reg, ids[i]).info.serviceProvider # ZeroAddress

\* the id lists of the successive single-page reads of getAllActiveProviders
SinglePages ==
  [k \in 1..((Len(ActiveIds(reg)) + PageSize - 1) \div PageSize) |->
     RegistryGetAllActiveProviders(reg, (k - 1) * PageSize, PageSize).providerIds]

\* C1: over a registry that stays fixed during the call and holds N active
\* (readable) providers, getAllActiveProviders returns exactly N records, each
\* provider id exactly once, in the order of the concatenated single-page id
\* lists.
C1_ListsEveryActiveProviderOnce ==
  (/\ listing.kind = "all"
   /\ listing.pc = "done"
   /\ ~regChanged
   /\ AllReadable(ActiveIds(reg))) =>
    /\ Len(listing.out.value) = Len(ActiveIds(reg))
    /\ IdsOf(listing.out.value) = Flat(SinglePages)
    /\ NoDuplicates(IdsOf(listing.out.value))

\* C1 witness: a fixed registry of 2 * PageSize + 1 active providers has been
\* listed over three pages.
C1_Witness ==
  /\ listing.kind = "all"
  /\ listing.pc = "done"
  /\ ~regChanged
  /\ AllReadable(ActiveIds(reg))
  /\ Len(ActiveIds(reg)) = 2 * PageSize + 1
  /\ Len(pageLog) = 3
  /\ Len(listing.out.value) = 2 * PageSize + 1

\* C7: a failed page request is the last request of its listing, and the
\* listing is rejected with that failure: it returns no list, however many
\* pages were fetched before.
C7_PageFailureRejects ==
  \A i \in 1..Len(pageLog) :
    ~pageLog[i].ok =>
      /\ i = Len(pageLog)
      /\ listing.pc = "rejected"
      /\ listing.out = PageFailure

\* C7 witness: the third page request failed after two pages were fetched and
\* their detail batches had completed.
C7_Witness ==
  /\ Len(pageLog) = 3
  /\ pageLog[1].ok /\ pageLog[2].ok /\ ~pageLog[3].ok
  /\ Len(listing.providerPromises) = 2
  /\ \A k \in 1..2 : listing.providerPromises[k].state = "fulfilled"
  /\ listing.pc = "rejected"

\* C8: every record returned by getActiveProvidersByProductType is active;
\* over a fixed registry whose indexed records are readable the result is the
\* product-type index without its inactive providers, order kept.
C8_OnlyActiveByProductType ==
  (listing.kind = "byType" /\ listing.pc = "done") =>
    /\ \A k \in 1..Len(listing.out.value) : listing.out.value[k].active
    /\ (~regChanged /\ AllReadable(ProductTypeIds(reg))) =>
         IdsOf(listing.out.value) =
           SelectSeq(ProductTypeIds(reg),
                     LAMBDA id : Entry(reg, id).info.isActive)

\* C8 witness: the product-type index holds an inactive provider on its second
\* page, and the listing returned the others.
C8_Witness ==
  /\ listing.kind = "byType"
  /\ listing.pc = "done"
  /\ ~regChanged
  /\ PageSize + 1 \in Range(ProductTypeIds(reg))
  /\ ~Entry(reg, PageSize + 1).info.isActive
  /\ Len(listing.out.value) = Len(ProductTypeIds(reg)) - 1
  /\ Len(listing.out.value) > PageSize

\* a listing is between its start and its end, and its loop has more to ask
ListingWantsPage ==
  /\ listing.kind # "none"
  /\ listing.pc \notin {"done", "rejected"}
  /\ listing.hasMore

PendingBatches ==
  {k \in 1..Len(listing.providerPromises) :
     listing.providerPromises[k].state = "pending"}

\* C19: while a listing has more pages to ask for, its next page request can
\* be answered whatever detail batches are pending: no page request waits for
\* a detail batch.
C19_PageRequestNeverBlocked ==
  ListingWantsPage => ENABLED ListingFetchPage

\* C19 witness: the page request after two pages is due while the detail
\* batches of both pages are pending.
C19_Witness ==
  /\ ListingWantsPage
  /\ Len(pageLog) = 2
  /\ PendingBatches = {1, 2}

\* what getProviders returns for the ids of one page
ExpectedBatch(ids) ==
  (CHOOSE out \in GetProviders(reg, mc, ids) : out.status = "fulfilled").value

\* C20: whatever the order in which the detail batches completed, a listing
\* on an unchanged registry returns the batches joined in page order: page
\* k's records precede page k+1's, so the ids of the result are increasing.
C20_ResultInPageOrder ==
  (listing.pc = "done" /\ ~regChanged) =>
    /\ listing.out =
         Fulfilled(JoinResult(listing.kind,
                              [k \in 1..Len(listing.providerPromises) |->
                                 ExpectedBatch(listing.providerPromises[k].ids)]))
    /\ \A i, j \in 1..Len(listing.out.value) :
         i < j => listing.out.value[i].id < listing.out.value[j].id

\* C20 witness: a listing has returned after the detail batch of its second
\* page completed before that of its first page, and its result starts with
\* a record of the first page.
C20_Witness ==
  /\ listing.pc = "done"
  /\ ~regChanged
  /\ Len(listing.providerPromises) >= 2
  /\ listing.providerPromises[2].order < listing.providerPromises[1].order
  /\ Len(listing.out.value) > PageSize
  /\ listing.out.value[1].id \in Range(listing.providerPromises[1].ids)

\* every page request but the last was answered with hasMore = true
NoPageAfterLast ==
  \A k \in 1..Len(pageLog) :
    k < Len(pageLog) => pageLog[k].ok /\ pageLog[k].hasMore

ListingEnded == listing.pc \in {"done", "rejected"}

\* every page was answered and every detail batch completed with a value
NothingFailed ==
  /\ \A k \in 1..Len(pageLog) : pageLog[k].ok
  /\ \A k \in 1..Len(listing.providerPromises) :
       listing.providerPromises[k].state # "rejected"

\* the registry answers every page request the loop is waiting for
PagesAnswered ==
  \A n \in 0..MaxPages + 2 :
    []<>(~(listing.pc = "loop" /\ Len(pageLog) = n))

\* every detail batch that was started completes
BatchesComplete ==
  \A k \in 1..MaxPages + 2 : []<>(k \notin PendingBatches)

\* the continuation of Promise.all runs once every batch has completed
JoinContinues == []<>(~(listing.pc = "join" /\ PendingBatches = {}))

\* C21: a listing requests no page after the first page answered with
\* hasMore = false; and if the registry answers every page request and every
\* detail batch that was started completes, a listing that was started ends,
\* and it returns unless a page request or a batch failed.
C21_StopsAtLastPageAndReturns ==
  /\ []NoPageAfterLast
  /\ [](listing.pc = "done" => ~pageLog[Len(pageLog)].hasMore)
  /\ (PagesAnswered /\ BatchesComplete /\ JoinContinues) =>
       /\ (listing.pc = "loop") ~> ListingEnded
       /\ (listing.pc = "loop") ~> (listing.pc = "done" \/ ~NothingFailed)

\* C21 witness: a listing has returned after three page requests, the last
\* of them answered with hasMore = false.
C21_Witness ==
  /\ listing.pc = "done"
  /\ Len(pageLog) = 3
  /\ pageLog[2].hasMore
  /\ ~pageLog[3].hasMore
  /\ Len(listing.providerPromises) = 3

\* C22: in both listings the k-th page request (counted from 0) asks for
\* offset 50 * k with limit 50, after empty and non-empty pages alike, and no
\* offset is asked for twice in one listing.
C22_OffsetsAdvanceByPageSize ==
  /\ \A k \in 1..Len(pageLog) :
       /\ pageLog[k].offset = 50 * (k - 1)
       /\ pageLog[k].limit = 50
  /\ \A j, k \in 1..Len(pageLog) :
       j # k => pageLog[j].offset # pageLog[k].offset
  /\ (listing.kind # "none" /\ \A k \in 1..Len(pageLog) : pageLog[k].ok)
       => listing.offset = 50 * Len(pageLog)

\* C22 witness: a by-type listing has made three page requests, at offsets 0,
\* 50 and 100, the last of them answered with an empty page.
C22_Witness ==
  /\ listing.kind = "byType"
  /\ Len(pageLog) = 3
  /\ pageLog[3].offset = 100
  /\ pageLog[3].ok
  /\ pageLog[3].size = 0
  /\ listing.offset = 150

\* the page requests so far that were answered with at least one id
NonEmptyPages == {k \in 1..Len(pageLog) : pageLog[k].ok /\ pageLog[k].size > 0}

\* C24: a listing has started exactly one detail batch per non-empty page and
\* none for an empty page; and getProviders of the empty list returns the
\* empty list and sends no request, neither the aggregated call nor a read.
C24_NoBatchForEmptyPage ==
  /\ Len(listing.providerPromises) = Cardinality(NonEmptyPages)
  /\ \A k \in 1..Len(listing.providerPromises) :
       listing.providerPromises[k].ids # <<>>
  /\ GetProviders(reg, mc, <<>>) = {Fulfilled(<<>>)}
  /\ GetProvidersWire(reg, mc, <<>>) = <<>>

\* C24 witness: a listing has returned after a non-empty page followed by an
\* empty one, with a single detail batch.
C24_Witness ==
  /\ listing.pc = "done"
  /\ Len(pageLog) = 2
  /\ pageLog[1].size > 0
  /\ pageLog[2].ok /\ pageLog[2].size = 0
  /\ Len(listing.providerPromises) = 1
  /\ Len(listing.out.value) > 0

\* ------------------------------------------------------------------------
\* Offerings and their encodings
\* ------------------------------------------------------------------------

OfferingSample ==
  [serviceURL |-> "https://x", minPieceSizeInBytes |-> 127,
   maxPieceSizeInBytes |-> 1024, storagePricePerTibPerDay |-> 127,
   location |-> "C=US;ST=Unknown;L=Unknown"]

\* the capability value that encodes a number
NumberToValue(n) == CHOOSE v \in DOMAIN NumberOf : NumberOf[v] = n

\* encodePDPCapabilities of synapse-core: one pair per recognized field, then
\* one pair per extra capability
EncodePDPCapabilities(offering, extraKeys, extraValues) ==
  [keys |-> <<"serviceURL", "minPieceSizeInBytes", "maxPieceSizeInBytes",
              "storagePricePerTibPerDay", "location">> \o extraKeys,
   values |-> <<offering.serviceURL, NumberToValue(offering.minPieceSizeInBytes),
                NumberToValue(offering.maxPieceSizeInBytes),
                NumberToValue(offering.storagePricePerTibPerDay),
                offering.location>> \o extraValues]

\* the bytes '0x'
EmptyBytes == [encoded |-> Null]

\* contract.encodePDPOffering(offering)
RegistryEncodePDPOffering(offering) == [encoded |-> offering]

\* ------------------------------------------------------------------------
\* The registry's writes
\* ------------------------------------------------------------------------

FeeValues == {5, 6}

IsRegistered(r, address) ==
  RegistryGetProviderIdByAddress(r, address).returnData.value # 0

\* the product the registry stores for a registration or a product write
StoredProduct(productData, capabilityKeys, capabilityValues) ==
  IF productData = EmptyBytes /\ capabilityKeys = <<>> THEN NoProduct
  ELSE IF productData = EmptyBytes
  THEN [isActive |-> TRUE, capabilityKeys |-> capabilityKeys,
        capabilityValues |-> capabilityValues]
  ELSE LET pairs == EncodePDPCapabilities(productData.encoded, capabilityKeys,
                                          capabilityValues)
       IN [isActive |-> TRUE, capabilityKeys |-> pairs.keys,
           capabilityValues |-> pairs.values]

\* registerProvider as the registry executes it: it reverts when the value
\* paid is below the current fee or the sender is registered already, and
\* otherwise stores the next id
RegistryRegisterProvider(r, currentFee, sender, tx) ==
  IF tx.value < currentFee THEN Rejected("execution reverted: Incorrect fee amount")
  ELSE IF IsRegistered(r, sender)
  THEN Rejected("execution reverted: Address already registered")
  ELSE Fulfilled(
         [r EXCEPT
            !.n = @ + 1,
            !.over =
              ((r.n + 1) :>
                 [get |-> "ok",
                  info |-> [serviceProvider |-> sender, payee |-> tx.args.payee,
                            name |-> tx.args.name,
                            description |-> tx.args.description,
                            isActive |-> TRUE],
                  prod |-> "ok",
                  product |-> StoredProduct(tx.args.productData,
                                            tx.args.capabilityKeys,
                                            tx.args.capabilityValues)]) @@ @])

\* a payable write is refused by the node when the sender cannot pay its value
SendRegisterProvider(r, currentFee, balances, tx) ==
  IF balances[tx.from] < tx.value THEN Rejected("insufficient funds")
  ELSE RegistryRegisterProvider(r, currentFee, tx.from, tx)

Debit(balances, tx) == [balances EXCEPT ![tx.from] = @ - tx.value]

\* ------------------------------------------------------------------------
\* SPRegistryService.registerProvider
\* ------------------------------------------------------------------------

JsNull == "<null>"

JsUndefined == "<undefined>"

\* value ?? ''
NullishToEmpty(value) == IF value \in {JsNull, JsUndefined} THEN "" ELSE value

\* a variant that leaves out the entries whose value is null or undefined
CapabilityArrays_OmitsNullish(capabilities) ==
  LET kept == SelectSeq(capabilities,
                        LAMBDA e : e.value \notin {JsNull, JsUndefined})
  IN [keys |-> [i \in 1..Len(kept) |-> kept[i].key],
      values |-> [i \in 1..Len(kept) |-> kept[i].value]]

\* the key/value arrays built from Object.entries(info.capabilities)
CapabilityArrays(capabilities) ==
  [keys |-> [i \in 1..Len(capabilities) |-> capabilities[i].key],
   values |-> [i \in 1..Len(capabilities) |-> NullishToEmpty(capabilities[i].value)]]

\* a variant that converts the capabilities whether or not an offering is given
RegisterArguments_CapabilitiesAlways(info, productData) ==
  [payee |-> info.payee, name |-> info.name, description |-> info.description,
   productType |-> 0,
   productData |-> IF info.pdpOffering # Null THEN productData ELSE EmptyBytes,
   capabilityKeys |->
     IF info.capabilities # Null
     THEN CapabilityArrays(info.capabilities.entries).keys ELSE <<>>,
   capabilityValues |->
     IF info.capabilities # Null
     THEN CapabilityArrays(info.capabilities.entries).values ELSE <<>>]

\* the arguments of the registerProvider write: capabilities are converted
\* only when an offering is given
RegisterArguments(info, productData) ==
  [payee |-> info.payee, name |-> info.name, description |-> info.description,
   productType |-> 0,
   productData |-> IF info.pdpOffering # Null THEN productData ELSE EmptyBytes,
   capabilityKeys |->
     IF info.pdpOffering # Null /\ info.capabilities # Null
     THEN CapabilityArrays(info.capabilities.entries).keys ELSE <<>>,
   capabilityValues |->
     IF info.pdpOffering # Null /\ info.capabilities # Null
     THEN CapabilityArrays(info.capabilities.entries).values ELSE <<>>]

\* a variant that pays the fee written into the setup script, 5 FIL
RegisterValue_HardCoded(registrationFee) == 5

\* { value: registrationFee }
RegisterValue(registrationFee) == registrationFee

Event(kind, by, invocation, fn, from, args, value) ==
  [kind |-> kind, by |-> by, invocation |-> invocation, fn |-> fn,
   from |-> from, args |-> args, value |-> value]

\* ------------------------------------------------------------------------
\* registerProvider: scenarios and actions
\* ------------------------------------------------------------------------

\* registerProvider calls a scenario makes, one after the other
MaxInvocations == 2

RegistrationInfoSamples ==
  { [payee |-> AddressOf(9), name |-> "nameA", description |-> "descA",
     pdpOffering |-> offering, capabilities |-> capabilities] :
      offering \in {Null, OfferingSample},
      capabilities \in
        {Null,
         [entries |-> <<[key |-> "region", value |-> "us-east"],
                        [key |-> "tier", value |-> JsUndefined]>>]} }

RegisterRegistries ==
  {[n |-> n, over |-> <<>>] : n \in 0..1}

RegisterInit ==
  /\ reg \in RegisterRegistries
  /\ fee \in FeeValues
  /\ approved = {}
  /\ balance \in {[a \in Signers |-> amount] : amount \in {5, 12}}
  /\ mc = WorkingMulticall
  /\ codec = StrictCodec
  /\ registryContract = "null"
  /\ lastCall = NoCall
  /\ synapse = NoSynapse
  /\ ListingIdle
  /\ WritersIdle

\* registerProvider(signer, info) is called: the contract handle is connected
RegisterStart ==
  \E signer \in {AddressOf(1), AddressOf(2)}, info \in RegistrationInfoSamples :
    /\ registration.pc = "idle"
    /\ registration.invocation < MaxInvocations
    /\ registration' =
         [NoRegistration EXCEPT !.pc = "fee",
                                !.invocation = registration.invocation + 1,
                                !.signer = signer, !.info = info]
    /\ registryContract' = GetRegistryContract(registryContract)
    /\ UNCHANGED <<envVars, chainVars, lookupVars, listingVars, setup, trace>>

\* await contract.REGISTRATION_FEE()
RegisterReadFee ==
  /\ registration.pc = "fee"
  /\ registration' =
       [registration EXCEPT
          !.registrationFee = fee,
          !.pc = IF registration.info.pdpOffering # Null THEN "encode" ELSE "submit"]
  /\ trace' = Append(trace, Event("read", "registerProvider",
                                  registration.invocation, "REGISTRATION_FEE",
                                  registration.signer, <<>>, fee))
  /\ UNCHANGED <<envVars, chainVars, registryContract, lookupVars, listingVars,
                 setup>>

\* await this.encodePDPOffering(info.pdpOffering)
RegisterEncode ==
  /\ registration.pc = "encode"
  /\ registration' =
       [registration EXCEPT
          !.productData = RegistryEncodePDPOffering(registration.info.pdpOffering),
          !.pc = "submit"]
  /\ UNCHANGED <<envVars, chainVars, registryContract, lookupVars, listingVars,
                 setup, trace>>

\* await contract.registerProvider(..., { value: registrationFee })
RegisterSubmit ==
  LET tx == Event("tx", "registerProvider", registration.invocation,
                  "registerProvider", registration.signer,
                  RegisterArguments(registration.info, registration.productData),
                  RegisterValue(registration.registrationFee))
      result == SendRegisterProvider(reg, fee, balance, tx)
  IN
  /\ registration.pc = "submit"
  /\ trace' = Append(trace, tx)
  /\ reg' = IF result.status = "fulfilled" THEN result.value ELSE reg
  /\ balance' = IF result.status = "fulfilled" THEN Debit(balance, tx) ELSE balance
  /\ registration' =
       [registration EXCEPT
          !.pc = "idle",
          !.out = IF result.status = "fulfilled" THEN Fulfilled(tx) ELSE result]
  /\ UNCHANGED <<mc, codec, fee, approved, registryContract, lookupVars, listingVars,
                 setup>>

\* a read or write of the call in progress fails in transport: the call
\* rejects with that failure
RegisterCallFails ==
  /\ registration.pc \in {"fee", "encode", "submit"}
  /\ registration' = [registration EXCEPT !.pc = "idle",
                                          !.out = Rejected("network error")]
  /\ UNCHANGED <<envVars, chainVars, registryContract, lookupVars, listingVars,
                 setup, trace>>

\* the registry's fee is changed
RegistryFeeChange ==
  \E newFee \in FeeValues \ {fee} :
    /\ fee' = newFee
    /\ UNCHANGED <<envVars, approved, balance, registryContract, lookupVars,
                   listingVars, writerVars>>

RegisterNext ==
  \/ RegisterStart
  \/ RegisterReadFee
  \/ RegisterEncode
  \/ RegisterSubmit
  \/ RegisterCallFails
  \/ RegistryFeeChange

SpecRegister == RegisterInit /\ [][RegisterNext]_vars

\* ------------------------------------------------------------------------
\* Claims about registerProvider (SpecRegister)
\* ------------------------------------------------------------------------

IsRegisterTx(e) ==
  e.kind = "tx" /\ e.by = "registerProvider" /\ e.fn = "registerProvider"

IsFeeRead(e) ==
  e.kind = "read" /\ e.by = "registerProvider" /\ e.fn = "REGISTRATION_FEE"

\* C10: every registerProvider write of the service is preceded by a read of
\* REGISTRATION_FEE made by the same invocation, and pays the value of the
\* last such read; a value read by an earlier invocation is not reused.
C10_FeeReadBeforeEachWrite ==
  \A j \in 1..Len(trace) :
    IsRegisterTx(trace[j]) =>
      \E i \in 1..(j - 1) :
        /\ IsFeeRead(trace[i])
        /\ trace[i].invocation = trace[j].invocation
        /\ trace[i].value = trace[j].value
        /\ \A k \in (i + 1)..(j - 1) : ~IsFeeRead(trace[k])

\* C10 witness: two invocations have each read the fee and submitted a write,
\* the fee having changed in between, and each paid what it read.
C10_Witness ==
  /\ Len(trace) = 4
  /\ IsFeeRead(trace[1]) /\ IsRegisterTx(trace[2])
  /\ IsFeeRead(trace[3]) /\ IsRegisterTx(trace[4])
  /\ trace[1].value # trace[3].value
  /\ trace[2].value = trace[1].value
  /\ trace[4].value = trace[3].value

\* ------------------------------------------------------------------------
\* The registry's other writes and scalar reads
\* ------------------------------------------------------------------------

RegistryIsRegisteredProvider(r, address) == IsRegistered(r, address)

\* updateProviderInfo(name, description) on the sender's own record
RegistryUpdateProviderInfo(r, sender, name, description) ==
  LET id == RegistryGetProviderIdByAddress(r, sender).returnData.value IN
  IF id = 0 THEN Rejected("execution reverted: Provider not registered")
  ELSE Fulfilled(
         [r EXCEPT !.over =
            (id :> [Entry(r, id) EXCEPT !.info.name = name,
                                        !.info.description = description])
              @@ r.over])

\* providerHasProduct(id, productType)
RegistryProviderHasProduct(r, id) == Entry(r, id).product.isActive

\* addProduct / updateProduct on the sender's own record: a product is added
\* only where none is active and updated only where one is
RegistryWriteProduct(r, sender, fn, productData, capabilityKeys, capabilityValues) ==
  LET id == RegistryGetProviderIdByAddress(r, sender).returnData.value IN
  IF id = 0 THEN Rejected("execution reverted: Provider not registered")
  ELSE IF fn = "addProduct" /\ RegistryProviderHasProduct(r, id)
  THEN Rejected("execution reverted: Product already exists")
  ELSE IF fn = "updateProduct" /\ ~RegistryProviderHasProduct(r, id)
  THEN Rejected("execution reverted: Product does not exist")
  ELSE Fulfilled(
         [r EXCEPT !.over =
            (id :> [Entry(r, id) EXCEPT
                      !.product = StoredProduct(productData, capabilityKeys,
                                                capabilityValues)])
              @@ r.over])

\* ------------------------------------------------------------------------
\* setupProvider of the post-deploy setup script
\* ------------------------------------------------------------------------

\* TIME_CONSTANTS.DAYS_PER_MONTH
DaysPerMonth == 30

\* ethers.parseEther('5'), in FIL
RequiredFee == 5

\* pdpDefaults.LOCATION
DefaultLocation == "C=US;ST=Unknown;L=Unknown"

\* provider.location: the JSON-RPC provider object has no such field
ProviderLocation == JsUndefined

\* the comparison that decides whether updateProviderInfo is submitted
NeedsInfoUpdate(providerInfo, spName, spDescription, location) ==
  \/ providerInfo.name # spName
  \/ providerInfo.description # spDescription
  \/ ProviderLocation # location

DailyPrice(config) == config.storagePricePerTibPerMonth \div DaysPerMonth

\* location || pdpDefaults.LOCATION
LocationOrDefault(location) == IF location = "" THEN DefaultLocation ELSE location

\* the offering the script builds from its configuration
DesiredOffering(config) ==
  [serviceURL |-> config.spServiceUrl,
   minPieceSizeInBytes |-> config.minPieceSize,
   maxPieceSizeInBytes |-> config.maxPieceSize,
   storagePricePerTibPerDay |-> DailyPrice(config),
   location |-> LocationOrDefault(config.location)]

\* the comparison that decides whether updatePDPProduct is submitted
NeedsProductUpdate(offering, config) ==
  \/ offering.serviceURL # config.spServiceUrl
  \/ offering.location # config.location
  \/ offering.storagePricePerTibPerDay # DailyPrice(config)

\* what Step 1 does for a registered address: the id and the record are read,
\* and updateProviderInfo is submitted when the comparison says so
\* (txs: the writes submitted; r: the registry afterwards)
StepOneRegistered(r, spAddress, config, run) ==
  LET providerId == RegistryGetProviderIdByAddress(r, spAddress).returnData.value
      providerInfo == GetProvider(r, providerId)
      tx == Event("tx", "setupProvider", run, "updateProviderInfo", spAddress,
                  [name |-> config.spName, description |-> config.spDescription],
                  0)
      write == RegistryUpdateProviderInfo(r, spAddress, config.spName,
                                          config.spDescription)
  IN
  IF providerInfo.status = "rejected"
  THEN [status |-> "rejected", providerId |-> providerId, providerInfo |-> Null,
        txs |-> <<>>, r |-> r]
  ELSE IF providerInfo.value = Null
  THEN [status |-> "fulfilled", providerId |-> providerId, providerInfo |-> Null,
        txs |-> <<>>, r |-> r]
  ELSE IF ~NeedsInfoUpdate(providerInfo.value, config.spName,
                           config.spDescription, config.location)
  THEN [status |-> "fulfilled", providerId |-> providerId,
        providerInfo |-> providerInfo.value, txs |-> <<>>, r |-> r]
  ELSE [status |-> write.status, providerId |-> providerId,
        providerInfo |-> providerInfo.value, txs |-> <<tx>>,
        r |-> IF write.status = "fulfilled" THEN write.value ELSE r]

\* what Step 2 does: the product is read and updated or added
StepTwo(r, spAddress, providerId, config, run) ==
  LET hasPDP == RegistryProviderHasProduct(r, providerId)
      pdpService == GetPDPService(r, providerId).value
      fn == IF hasPDP THEN "updateProduct" ELSE "addProduct"
      tx == Event("tx", "setupProvider", run, fn, spAddress,
                  [productType |-> 0,
                   productData |-> RegistryEncodePDPOffering(DesiredOffering(config)),
                   capabilityKeys |-> <<>>, capabilityValues |-> <<>>], 0)
      write == RegistryWriteProduct(r, spAddress, fn, tx.args.productData, <<>>, <<>>)
      submits ==
        IF hasPDP
        THEN /\ pdpService # Null
             /\ pdpService.isActive
             /\ NeedsProductUpdate(pdpService.offering, config)
        ELSE TRUE
  IN
  IF ~submits THEN [status |-> "fulfilled", txs |-> <<>>, r |-> r]
  ELSE [status |-> write.status, txs |-> <<tx>>,
        r |-> IF write.status = "fulfilled" THEN write.value ELSE r]

\* ------------------------------------------------------------------------
\* setupProvider: scenarios and actions
\* ------------------------------------------------------------------------

\* runs of the script a scenario makes, one after the other
MaxRuns == 2

ConfigSamples ==
  { [spName |-> spName, spDescription |-> "descA", spServiceUrl |-> "https://x",
     location |-> location, minPieceSize |-> 127, maxPieceSize |-> 1024,
     storagePricePerTibPerMonth |-> 3810] :
      spName \in {"nameA", "nameB"}, location \in {DefaultLocation, "C=AU"} }

\* the product a registration with the sample offering leaves stored
FullProduct == StoredProduct(RegistryEncodePDPOffering(OfferingSample), <<>>, <<>>)

SetupEntrySamples ==
  LET h == HealthyEntry(1) IN
  { [h EXCEPT !.info.name = name, !.product = product] :
      name \in {"nameA", "nameB"},
      product \in {FullProduct, GoodProduct, NoProduct} }
  \cup { [h EXCEPT !.product = FullProduct, !.prod = "reverted"],
         [h EXCEPT !.product = FullProduct, !.get = "garbage"] }

SetupRegistries ==
  {[n |-> 0, over |-> <<>>]}
  \cup {[n |-> 1, over |-> (1 :> e)] : e \in SetupEntrySamples}

SetupInit ==
  /\ reg \in SetupRegistries
  /\ fee \in FeeValues
  /\ approved \in {{}, {1}}
  /\ balance \in {[a \in Signers |-> amount] : amount \in {4, 5, 12}}
  /\ mc = WorkingMulticall
  /\ codec = StrictCodec
  /\ registryContract = "null"
  /\ lastCall = NoCall
  /\ synapse = NoSynapse
  /\ ListingIdle
  /\ WritersIdle

SetupRunning == setup.pc \in {"step1", "step2", "step3"}

\* setupProvider is called; it reads isRegisteredProvider(spAddress)
SetupStart ==
  \E config \in ConfigSamples, spAddress \in Signers :
    /\ ~SetupRunning
    /\ setup.run < MaxRuns
    /\ setup' = [NoSetup EXCEPT
                   !.pc = "step1", !.run = setup.run + 1, !.config = config,
                   !.spAddress = spAddress,
                   !.isRegistered = RegistryIsRegisteredProvider(reg, spAddress)]
    /\ registryContract' = GetRegistryContract(registryContract)
    /\ UNCHANGED <<envVars, chainVars, lookupVars, listingVars, registration,
                   trace>>

\* Step 1, the address is registered
SetupStepOneRegistered ==
  LET step == StepOneRegistered(reg, setup.spAddress, setup.config, setup.run) IN
  /\ setup.pc = "step1"
  /\ setup.isRegistered
  /\ trace' = trace \o step.txs
  /\ reg' = step.r
  /\ setup' = [setup EXCEPT
                 !.providerId = step.providerId,
                 !.providerInfo = step.providerInfo,
                 !.pc = IF step.status = "fulfilled" THEN "step2" ELSE "rejected",
                 !.out = IF step.status = "fulfilled" THEN @
                         ELSE Rejected("step 1 failed")]
  /\ UNCHANGED <<mc, codec, chainVars, registryContract, lookupVars, listingVars,
                 registration>>

\* Step 1, the address is not registered and its balance is below 5 FIL:
\* process.exit(1)
SetupInsufficientBalance ==
  /\ setup.pc = "step1"
  /\ ~setup.isRegistered
  /\ balance[setup.spAddress] < RequiredFee
  /\ setup' = [setup EXCEPT !.pc = "exited"]
  /\ UNCHANGED <<envVars, chainVars, registryContract, lookupVars, listingVars,
                 registration, trace>>

\* Step 1, the address is not registered: the fee is read and the
\* registration is submitted with the offering's capabilities, then the new
\* id is read
SetupStepOneRegister ==
  LET pairs == EncodePDPCapabilities(DesiredOffering(setup.config), <<>>, <<>>)
      read == Event("read", "setupProvider", setup.run, "REGISTRATION_FEE",
                    setup.spAddress, <<>>, fee)
      tx == Event("tx", "setupProvider", setup.run, "registerProvider",
                  setup.spAddress,
                  [payee |-> setup.spAddress, name |-> setup.config.spName,
                   description |-> setup.config.spDescription, productType |-> 0,
                   productData |-> EmptyBytes, capabilityKeys |-> pairs.keys,
                   capabilityValues |-> pairs.values],
                  fee)
      result == SendRegisterProvider(reg, fee, balance, tx)
      after == IF result.status = "fulfilled" THEN result.value ELSE reg
  IN
  /\ setup.pc = "step1"
  /\ ~setup.isRegistered
  /\ balance[setup.spAddress] >= RequiredFee
  /\ trace' = trace \o <<read, tx>>
  /\ reg' = after
  /\ balance' = IF result.status = "fulfilled" THEN Debit(balance, tx) ELSE balance
  /\ setup' = [setup EXCEPT
                 !.providerId =
                   RegistryGetProviderIdByAddress(after, setup.spAddress)
                     .returnData.value,
                 !.pc = IF result.status = "fulfilled" THEN "step2" ELSE "rejected",
                 !.out = IF result.status = "fulfilled" THEN @ ELSE result]
  /\ UNCHANGED <<mc, codec, fee, approved, registryContract, lookupVars, listingVars,
                 registration>>

\* Step 2: the PDP product is verified, updated or added
SetupStepTwo ==
  LET step == StepTwo(reg, setup.spAddress, setup.providerId, setup.config,
                      setup.run)
  IN
  /\ setup.pc = "step2"
  /\ trace' = trace \o step.txs
  /\ reg' = step.r
  /\ setup' = [setup EXCEPT
                 !.pc = IF step.status = "fulfilled" THEN "step3" ELSE "rejected",
                 !.out = IF step.status = "fulfilled" THEN @
                         ELSE Rejected("step 2 failed")]
  /\ UNCHANGED <<mc, codec, chainVars, registryContract, lookupVars, listingVars,
                 registration>>

\* Step 3: the id is approved in WarmStorage unless it is approved already
SetupStepThree ==
  LET isApprovedInWarmStorage == setup.providerId \in approved
      tx == Event("tx", "setupProvider", setup.run, "addApprovedProvider",
                  ZeroAddress, [providerId |-> setup.providerId], 0)
  IN
  /\ setup.pc = "step3"
  /\ trace' = IF isApprovedInWarmStorage THEN trace ELSE Append(trace, tx)
  /\ approved' = approved \cup {setup.providerId}
  /\ setup' = [setup EXCEPT !.pc = "done",
                            !.out = Fulfilled([providerId |-> setup.providerId])]
  /\ UNCHANGED <<envVars, fee, balance, registryContract, lookupVars,
                 listingVars, registration>>

SetupNext ==
  \/ SetupStart
  \/ SetupStepOneRegistered
  \/ SetupInsufficientBalance
  \/ SetupStepOneRegister
  \/ SetupStepTwo
  \/ SetupStepThree
  \/ RegistryFeeChange

SpecSetup == SetupInit /\ [][SetupNext]_vars

\* ------------------------------------------------------------------------
\* Claims about setupProvider (SpecSetup)
\* ------------------------------------------------------------------------

IsSetupTx(e, fn) ==
  e.kind = "tx" /\ e.by = "setupProvider" /\ e.invocation = setup.run /\ e.fn = fn

\* Step 1 of the current run has found the address registered and has read
\* its record
RegisteredRunPastStepOne ==
  /\ setup.isRegistered
  /\ setup.pc \in {"step2", "step3", "done"}
  /\ setup.providerInfo # Null

\* the record read in Step 1 already carries the desired name and description
InfoAlreadyDesired ==
  /\ setup.providerInfo.name = setup.config.spName
  /\ setup.providerInfo.description = setup.config.spDescription

\* C9: a run of setupProvider for an address that is already registered
\* submits no registerProvider write, and when the name and the description
\* read from the registry already equal the desired ones it submits no
\* updateProviderInfo write either.
C9_RegisteredRunIsNoOp ==
  RegisteredRunPastStepOne =>
    /\ \A i \in 1..Len(trace) : ~IsSetupTx(trace[i], "registerProvider")
    /\ InfoAlreadyDesired =>
         \A i \in 1..Len(trace) : ~IsSetupTx(trace[i], "updateProviderInfo")

\* ------------------------------------------------------------------------
\* The capability codec, end to end: an offering is encoded and registered
\* the way the setup script does it, then read back with getPDPService
\* ------------------------------------------------------------------------

\* the offerings of the scenarios: every recognized field takes two or more
\* values, the location also the empty string
ValidOfferings ==
  [serviceURL : {"https://x", "https://y"},
   minPieceSizeInBytes : {127, 1024},
   maxPieceSizeInBytes : {127, 1024},
   storagePricePerTibPerDay : {127, 1024},
   location : {"", DefaultLocation, "C=AU"}]

\* extension pairs given to the encoder: none, one or two
ExtensionSamples ==
  {[keys |-> <<>>, values |-> <<>>],
   [keys |-> <<"region">>, values |-> <<"us-east">>],
   [keys |-> <<"tier", "region">>, values |-> <<"gold", "">>]}

CodecInit ==
  /\ reg = [n |-> 0, over |-> <<>>]
  /\ mc = WorkingMulticall
  /\ codec = StrictCodec
  /\ registryContract = "null"
  /\ lastCall = NoCall
  /\ synapse = NoSynapse
  /\ ChainIdle
  /\ ListingIdle
  /\ WritersIdle

\* encodePDPCapabilities(pdpOffering, customCapabilities), then
\* contract.registerProvider with the encoded keys and values
CodecEncodeAndRegister ==
  \E offering \in ValidOfferings, extra \in ExtensionSamples :
    LET pairs == EncodePDPCapabilities(offering, extra.keys, extra.values)
        call == Event("call", "setupProvider", 1, "encodePDPCapabilities",
                      AddressOf(1),
                      [offering |-> offering, extra |-> extra], 0)
        tx == Event("tx", "setupProvider", 1, "registerProvider", AddressOf(1),
                    [payee |-> AddressOf(1), name |-> "nameA",
                     description |-> "descA", productType |-> 0,
                     productData |-> EmptyBytes, capabilityKeys |-> pairs.keys,
                     capabilityValues |-> pairs.values],
                    fee)
    IN
    /\ trace = <<>>
    /\ trace' = <<call, tx>>
    /\ reg' = RegistryRegisterProvider(reg, fee, AddressOf(1), tx).value
    /\ UNCHANGED <<mc, codec, chainVars, registryContract, lookupVars, listingVars,
                   registration, setup>>

\* getPDPService(1) reads the stored product back
CodecReadBack ==
  /\ trace # <<>>
  /\ lastCall.op = "none"
  /\ lastCall' = [op |-> "getPDPService", arg |-> 1, out |-> GetPDPService(reg, 1)]
  /\ registryContract' = GetRegistryContract(registryContract)
  /\ UNCHANGED <<envVars, chainVars, synapse, listingVars, writerVars>>

CodecNext ==
  \/ CodecEncodeAndRegister
  \/ CodecReadBack

SpecCodec == CodecInit /\ [][CodecNext]_vars

RegistryRemoveProviderBy(r, sender) ==
  LET id == RegistryGetProviderIdByAddress(r, sender).returnData.value IN
  IF id = 0 THEN Fulfilled(r) ELSE Fulfilled(RegistryRemoveProvider(r, id))

\* a variant that refuses a signer whose record is not active
RemoveProvider_RequiresActive(r, signer) ==
  LET id == RegistryGetProviderIdByAddress(r, signer).returnData.value IN
  IF id = 0 \/ ~Entry(r, id).info.isActive
  THEN Rejected("Provider not registered")
  ELSE RegistryRemoveProviderBy(r, signer)

\* removeProvider(signer): contract.connect(signer).removeProvider()
RemoveProvider(r, signer) == RegistryRemoveProviderBy(r, signer)

\* removeProvider calls a scenario makes, one after the other
MaxRemovals == 2

\* the record `address` controls, 0 when it controls none
ControlledId(r, address) ==
  RegistryGetProviderIdByAddress(r, address).returnData.value

RemoveInit ==
  /\ reg \in LookupRegistries
  /\ mc = WorkingMulticall
  /\ codec = StrictCodec
  /\ registryContract = "null"
  /\ lastCall = NoCall
  /\ synapse = NoSynapse
  /\ ChainIdle
  /\ ListingIdle
  /\ WritersIdle

CallRemoveProvider ==
  /\ Len(trace) < MaxRemovals
  /\ \E signer \in Signers :
       LET out == RemoveProvider(reg, signer)
           id == ControlledId(reg, signer)
       IN
       /\ trace' = Append(trace,
            Event("tx", "removeProvider", Len(trace) + 1, "removeProvider",
                  signer,
                  [status |-> out.status,
                   wasActive |-> id # 0 /\ Entry(reg, id).info.isActive],
                  0))
       /\ reg' = IF out.status = "fulfilled" THEN out.value ELSE reg
       /\ registryContract' = GetRegistryContract(registryContract)
       /\ UNCHANGED <<mc, codec, chainVars, lookupVars, listingVars, registration, setup>>

RemoveNext == CallRemoveProvider

SpecRemove == RemoveInit /\ [][RemoveNext]_vars

Truthy(value) == value \notin {JsUndefined, JsNull, ""}

\* value ?? fallback
Coalesce(value, fallback) ==
  IF value \in {JsUndefined, JsNull} THEN fallback ELSE value

\* CONTRACT_ADDRESSES.MULTICALL3[network]: devnet has no entry
Multicall3Default(network) ==
  CASE network = "mainnet" -> "0xMC-mainnet"
    [] network = "calibration" -> "0xMC-calibration"
    [] OTHER -> JsUndefined

\* CONTRACT_ADDRESSES.WARM_STORAGE[network]: devnet has no entry
WarmStorageDefault(network) ==
  CASE network = "mainnet" -> "0xWS-mainnet"
    [] network = "calibration" -> "0xWS-calibration"
    [] OTHER -> JsUndefined

NoMulticall3Message(network) ==
  CASE network = "devnet" -> "multicall3Address is required when using devnet"
    [] network = "mainnet" -> "No Multicall3 address configured for network: mainnet"
    [] OTHER -> "No Multicall3 address configured for network: calibration"

NoWarmStorageMessage(network) ==
  CASE network = "devnet" -> "warmStorageAddress is required when using devnet"
    [] network = "mainnet" -> "No Warm Storage address configured for network: mainnet"
    [] OTHER -> "No Warm Storage address configured for network: calibration"

\* a variant that hands on whatever the option or the table holds
ResolvedMulticall3Address_Unchecked(options, network) ==
  Fulfilled(Coalesce(options.multicall3Address, Multicall3Default(network)))

\* options.multicall3Address ?? CONTRACT_ADDRESSES.MULTICALL3[network], and
\* the throw on a falsy result
ResolvedMulticall3Address(options, network) ==
  LET resolved == Coalesce(options.multicall3Address, Multicall3Default(network)) IN
  IF ~Truthy(resolved) THEN Rejected(NoMulticall3Message(network))
  ELSE Fulfilled(resolved)

ResolvedWarmStorageAddress(options, network) ==
  LET resolved == Coalesce(options.warmStorageAddress, WarmStorageDefault(network)) IN
  IF ~Truthy(resolved) THEN Rejected(NoWarmStorageMessage(network))
  ELSE Fulfilled(resolved)

\* privateKey.startsWith('0x') ? privateKey : `0x${privateKey}`
SanitizePrivateKey(privateKey) ==
  CASE privateKey = "key" -> "0xkey"
    [] privateKey = "" -> "0x"
    [] OTHER -> privateKey

\* a variant of the count that lets several authentication options through
ProvidedOptions_Any(options) ==
  IF \E k \in {"privateKey", "provider", "signer"} : Truthy(options[k])
  THEN 1 ELSE 0

\* [options.privateKey, options.provider, options.signer].filter(Boolean).length
ProvidedOptions(options) ==
  Cardinality({k \in {"privateKey", "provider", "signer"} : Truthy(options[k])})

\* the providers created and the network calls made while the signer is
\* derived, in the order the branch taken makes them
DeriveEffects(options) ==
  CASE options.privateKey \notin {JsUndefined, JsNull} ->
         IF options.rpcURL \in {JsUndefined, JsNull} THEN <<>>
         ELSE <<"new JsonRpcProvider", "getFilecoinNetworkType">>
    [] options.provider \notin {JsUndefined, JsNull} ->
         IF options.provider = "readonly" THEN <<"getFilecoinNetworkType">>
         ELSE <<"getFilecoinNetworkType", "provider.getSigner">>
    [] options.signer \notin {JsUndefined, JsNull} ->
         IF options.signer = "detached" THEN <<>>
         ELSE <<"getFilecoinNetworkType">>
    [] OTHER -> <<>>

\* the signer and the provider derived from the one authentication option
DeriveSigner(options) ==
  LET wrap(base) ==
        [base |-> base, nonceManaged |-> ~options.disableNonceManager]
  IN
  CASE options.privateKey \notin {JsUndefined, JsNull} ->
         IF options.rpcURL \in {JsUndefined, JsNull}
         THEN Rejected("rpcURL is required when using privateKey")
         ELSE IF SanitizePrivateKey(options.privateKey) = "0x"
         THEN Rejected("invalid private key")
         ELSE Fulfilled(wrap(SanitizePrivateKey(options.privateKey)))
    [] options.provider \notin {JsUndefined, JsNull} ->
         IF options.provider = "readonly"
         THEN Rejected("Provider does not support signing operations")
         ELSE Fulfilled(wrap("provider.getSigner(0)"))
    [] options.signer \notin {JsUndefined, JsNull} ->
         IF options.signer = "detached"
         THEN Rejected("Signer must have a provider")
         ELSE Fulfilled(wrap(options.signer))
    [] OTHER -> Rejected("No valid authentication method provided")

\* the constructor's assignments
NewSynapse(signer, network, withCDN, warmStorageAddress, multicall3Address) ==
  [_signer |-> signer, _network |-> network, _withCDN |-> withCDN,
   _warmStorageAddress |-> warmStorageAddress, _session |-> JsNull,
   _multicall3Address |-> multicall3Address]

\* Synapse.create(options) on a chain getFilecoinNetworkType reports as
\* chain.network and on which WarmStorageService.create succeeds or not
SynapseCreate(options, chain) ==
  LET providedOptions == ProvidedOptions(options)
      signer == DeriveSigner(options)
      network == chain.network
      multicall3 == ResolvedMulticall3Address(options, network)
      warmStorage == ResolvedWarmStorageAddress(options, network)
  IN
  IF providedOptions # 1
  THEN Rejected("Must provide exactly one of: privateKey, provider, or signer")
  ELSE IF signer.status = "rejected" THEN signer
  ELSE IF network \notin {"mainnet", "calibration", "devnet"}
  THEN Rejected("Invalid network")
  ELSE IF multicall3.status = "rejected" THEN multicall3
  ELSE IF warmStorage.status = "rejected" THEN warmStorage
  ELSE IF ~chain.warmStorageReachable
  THEN Rejected("WarmStorageService.create failed")
  ELSE Fulfilled(NewSynapse(signer.value, network,
                            network # "devnet" /\ options.withCDN,
                            warmStorage.value, multicall3.value))

\* the providers Synapse.create creates and the network calls it makes on
\* the way to its outcome
SynapseCreateEffects(options, chain) ==
  LET signer == DeriveSigner(options)
      network == chain.network
  IN
  IF ProvidedOptions(options) # 1 THEN <<>>
  ELSE IF signer.status = "rejected" THEN DeriveEffects(options)
  ELSE IF network \notin {"mainnet", "calibration", "devnet"}
  THEN DeriveEffects(options)
  ELSE DeriveEffects(options)
       \o (IF network = "devnet" THEN <<"queryGenesisTimestamp">> ELSE <<>>)
       \o (IF \/ ResolvedMulticall3Address(options, network).status = "rejected"
              \/ ResolvedWarmStorageAddress(options, network).status = "rejected"
           THEN <<>> ELSE <<"WarmStorageService.create">>)

\* getMulticall3Address()
GetMulticall3Address(instance) == instance._multicall3Address

Multicall3Options == {JsUndefined, JsNull, "", "0xMC"}

SynapseOptionSamples ==
  [privateKey : {JsUndefined, "", "key", "0xkey"},
   provider : {JsUndefined, "browser", "readonly"},
   signer : {JsUndefined, "wallet", "detached"},
   rpcURL : {JsUndefined, "https://rpc"},
   disableNonceManager : BOOLEAN,
   withCDN : BOOLEAN,
   multicall3Address : Multicall3Options,
   warmStorageAddress : {JsUndefined, "0xWS"}]

ChainSamples ==
  [network : {"mainnet", "calibration", "devnet", "unknown"},
   warmStorageReachable : BOOLEAN]

SynapseInit ==
  /\ reg = [n |-> 0, over |-> <<>>]
  /\ mc = WorkingMulticall
  /\ codec = StrictCodec
  /\ registryContract = "null"
  /\ lastCall = NoCall
  /\ synapse = NoSynapse
  /\ ChainIdle
  /\ ListingIdle
  /\ WritersIdle

CallSynapseCreate ==
  /\ synapse.status = "none"
  /\ \E options \in SynapseOptionSamples, chain \in ChainSamples :
       LET out == SynapseCreate(options, chain) IN
       synapse' = [status |-> IF out.status = "fulfilled" THEN "created" ELSE "failed",
                   options |-> options, chain |-> chain,
                   instance |-> IF out.status = "fulfilled" THEN out.value ELSE Null,
                   error |-> IF out.status = "fulfilled" THEN "" ELSE out.value,
                   effects |-> SynapseCreateEffects(options, chain)]
  /\ UNCHANGED <<envVars, chainVars, registryContract, lastCall, listingVars,
                 writerVars>>

CallGetMulticall3Address ==
  /\ synapse.status = "created"
  /\ lastCall.op = "none"
  /\ lastCall' = [op |-> "getMulticall3Address", arg |-> <<>>,
                  out |-> Fulfilled(GetMulticall3Address(synapse.instance))]
  /\ UNCHANGED <<envVars, chainVars, registryContract, synapse, listingVars,
                 writerVars>>

\* the session keys of the scenarios and the signer each one wraps
SessionSigner ==
  [skA |-> [base |-> "session signer A", nonceManaged |-> FALSE],
   skB |-> [base |-> "session signer B", nonceManaged |-> FALSE]]

SessionKeySamples == {JsNull, JsUndefined} \cup DOMAIN SessionSigner

\* a variant that answers with the client signer whatever the session
GetSigner_ClientOnly(instance) == instance._signer

\* getSigner()
GetSigner(instance) ==
  IF instance._session \in {JsNull, JsUndefined} THEN instance._signer
  ELSE SessionSigner[instance._session]

\* getClient()
GetClient(instance) == instance._signer

\* setSession(sessionKey)
SetSession(instance, sessionKey) == [instance EXCEPT !._session = sessionKey]

\* setSession is called; the value handed over is noted as the last one set
CallSetSession ==
  /\ synapse.status = "created"
  /\ \E sessionKey \in SessionKeySamples :
       /\ synapse' = [synapse EXCEPT
                        !.instance = SetSession(synapse.instance, sessionKey)]
       /\ lastCall' = [op |-> "setSession", arg |-> <<sessionKey>>,
                       out |-> Fulfilled(JsUndefined)]
       /\ trace' = <<sessionKey>>
  /\ UNCHANGED <<envVars, chainVars, registryContract, listingVars, registration,
                 setup>>

CallGetSigner ==
  /\ synapse.status = "created"
  /\ lastCall' = [op |-> "getSigner", arg |-> <<>>,
                  out |-> Fulfilled(GetSigner(synapse.instance))]
  /\ UNCHANGED <<envVars, chainVars, registryContract, synapse, listingVars,
                 writerVars>>

CallGetClient ==
  /\ synapse.status = "created"
  /\ lastCall' = [op |-> "getClient", arg |-> <<>>,
                  out |-> Fulfilled(GetClient(synapse.instance))]
  /\ UNCHANGED <<envVars, chainVars, registryContract, synapse, listingVars,
                 writerVars>>

\* an error message as the sequence of its phrases; message.includes(phrase)
Includes(message, phrase) == \E i \in 1..Len(message) : message[i] = phrase

\* a thrown value: an Error or not, and its message or its String() form
Thrown(isError, message) == [isError |-> isError, message |-> message]

\* a variant of the catch block that wraps every error
CatchProviderInfo_WrapsAll(error) ==
  Thrown(TRUE, <<"Failed to get provider info">> \o error.message)

\* the catch block of getProviderInfo: what it throws for a caught error
CatchProviderInfo(error) ==
  IF error.isError /\ Includes(error.message, "Invalid provider address")
  THEN error
  ELSE IF error.isError /\ Includes(error.message, "is not approved")
  THEN error
  ELSE IF error.isError /\ Includes(error.message, "not found")
  THEN error
  ELSE Thrown(TRUE, <<"Failed to get provider info">> \o error.message)

\* the strings ethers.getAddress accepts, among those of the scenarios
ValidAddressStrings == {"0xSP1"}

\* the arguments of the scenarios: typeof and the text `${providerAddress}`
ProviderAddressSamples ==
  {[type |-> "string", text |-> "0xSP1"], [type |-> "string", text |-> "bogus"],
   [type |-> "number", text |-> "1"]}

\* what the resolver does when it is asked: it finds an approved provider,
\* finds none, or fails with an Error or with some other thrown value
ResolverOutcomes ==
  {[kind |-> "found", error |-> Null], [kind |-> "null", error |-> Null]}
    \cup {[kind |-> "throws", error |-> Thrown(isError, message)] :
            isError \in BOOLEAN,
            message \in {<<"network error">>, <<"header ", "not found">>,
                         <<"Provider 1 ", "is not approved">>}}

\* getProviderInfo(providerAddress) when the resolver behaves as `resolver`;
\* `queried` tells whether the resolver was asked at all
GetProviderInfo(providerAddress, resolver) ==
  LET fail(error, queried) ==
        [status |-> "rejected", value |-> CatchProviderInfo(error).message,
         queried |-> queried]
  IN
  IF /\ providerAddress.type = "string"
     /\ providerAddress.text \notin ValidAddressStrings
  THEN fail(Thrown(TRUE, <<"Invalid provider address", ": ",
                           providerAddress.text>>), FALSE)
  ELSE IF resolver.kind = "throws" THEN fail(resolver.error, TRUE)
  ELSE IF resolver.kind = "null"
  THEN fail(Thrown(TRUE, <<"Provider ", providerAddress.text, " ", "not found",
                           " or not approved">>), TRUE)
  ELSE [status |-> "fulfilled",
        value |-> [serviceProvider |-> providerAddress.text], queried |-> TRUE]

CallGetProviderInfo ==
  /\ synapse.status = "created"
  /\ \E providerAddress \in ProviderAddressSamples, resolver \in ResolverOutcomes :
       lastCall' = [op |-> "getProviderInfo",
                    arg |-> [providerAddress |-> providerAddress,
                             resolver |-> resolver],
                    out |-> GetProviderInfo(providerAddress, resolver)]
  /\ UNCHANGED <<envVars, chainVars, registryContract, synapse, listingVars,
                 writerVars>>

SynapseNext ==
  \/ CallSynapseCreate
  \/ CallGetProviderInfo
  \/ CallGetMulticall3Address
  \/ CallSetSession
  \/ CallGetSigner
  \/ CallGetClient

SpecSynapse == SynapseInit /\ [][SynapseNext]_vars

\* the multicall3Address option was given: neither undefined nor null
Multicall3Given == synapse.options.multicall3Address \notin {JsUndefined, JsNull}

\* C17: an instance Synapse.create returned reports the multicall3Address
\* option when it was given and the network default otherwise, and never an
\* empty address; on devnet without the option create fails with an error.
C17_Multicall3AddressResolved ==
  /\ lastCall.op = "getMulticall3Address" =>
       /\ lastCall.out.value =
            IF Multicall3Given THEN synapse.options.multicall3Address
            ELSE Multicall3Default(synapse.chain.network)
       /\ lastCall.out.value \notin {"", JsUndefined, JsNull}
  /\ (synapse.status # "none" /\ synapse.chain.network = "devnet"
        /\ ~Multicall3Given) =>
       /\ synapse.status = "failed"
       /\ synapse.error # ""

\* C17 witness: create has thrown the devnet error for a missing option on an
\* otherwise valid call.
C17_Witness ==
  /\ synapse.status = "failed"
  /\ synapse.chain.network = "devnet"
  /\ synapse.options.multicall3Address = JsUndefined
  /\ synapse.options.warmStorageAddress = "0xWS"
  /\ synapse.error = "multicall3Address is required when using devnet"

\* ------------------------------------------------------------------------
\* Lookups on a registry whose capability lists are not aligned
\* ------------------------------------------------------------------------

\* products whose keys and values differ in length: the value of an
\* unrecognized key is missing, the value of a recognized key is missing, a
\* value has no key
MisalignedProducts ==
  { [isActive |-> TRUE,
     capabilityKeys |-> <<"serviceURL", "minPieceSizeInBytes", "region">>,
     capabilityValues |-> <<"https://x", "127">>],
    [isActive |-> TRUE,
     capabilityKeys |-> <<"serviceURL", "minPieceSizeInBytes">>,
     capabilityValues |-> <<"https://x">>],
    [isActive |-> TRUE,
     capabilityKeys |-> <<"serviceURL">>,
     capabilityValues |-> <<"https://x", "127">>] }

MisalignedEntrySamples(id) ==
  {[HealthyEntry(id) EXCEPT !.product = product] :
     product \in MisalignedProducts \cup {GoodProduct}}

MisalignedRegistries ==
  {[n |-> MaxProviderId, over |-> over] :
     over \in {f \in [1..MaxProviderId ->
                        UNION {MisalignedEntrySamples(id) : id \in 1..MaxProviderId}] :
                 \A id \in 1..MaxProviderId : f[id] \in MisalignedEntrySamples(id)}}

MisalignedInit ==
  /\ reg \in MisalignedRegistries
  /\ mc \in MulticallSamples
  /\ codec \in CodecSamples
  /\ registryContract = "null"
  /\ lastCall = NoCall
  /\ synapse = NoSynapse
  /\ ChainIdle
  /\ ListingIdle
  /\ WritersIdle

SpecMisaligned == MisalignedInit /\ [][LookupNext]_vars

Misaligned(product) ==
  Len(product.capabilityKeys) # Len(product.capabilityValues)

\* C25 (as claimed): for a product whose capability keys and values differ in
\* length, getPDPService returns null and getProviders returns the provider
\* with an empty products map, in the aggregated and in the fallback path.
C25_MisalignedFailsClosed ==
  /\ (lastCall.op = "getPDPService" /\ lastCall.arg \in 1..reg.n
        /\ Misaligned(Entry(reg, lastCall.arg).product))
       => lastCall.out = Fulfilled(Null)
  /\ (lastCall.op = "getProviders" /\ lastCall.out.status = "fulfilled") =>
       \A k \in 1..Len(lastCall.out.value) :
         Misaligned(Entry(reg, lastCall.out.value[k].id).product)
           => DOMAIN lastCall.out.value[k].products = {}

\* ------------------------------------------------------------------------
\* SPRegistryService.addPDPProduct / updatePDPProduct
\* ------------------------------------------------------------------------

\* value || ''
FalsyToEmpty(value) == IF value \in {JsNull, JsUndefined, ""} THEN "" ELSE value

\* entries.map(([key]) => key) and entries.map(([, value]) => value || '')
ProductCapabilityArrays(capabilities) ==
  [keys |-> [i \in 1..Len(capabilities) |-> capabilities[i].key],
   values |-> [i \in 1..Len(capabilities) |-> FalsyToEmpty(capabilities[i].value)]]

\* capabilities: Record<string, string> = {}
CapabilitiesOrDefault(capabilities) ==
  IF capabilities = Null THEN <<>> ELSE capabilities.entries

\* the arguments of contract.addProduct / contract.updateProduct
ProductArguments(pdpOffering, capabilities) ==
  [productType |-> 0,
   productData |-> RegistryEncodePDPOffering(pdpOffering),
   capabilityKeys |->
     ProductCapabilityArrays(CapabilitiesOrDefault(capabilities)).keys,
   capabilityValues |->
     ProductCapabilityArrays(CapabilitiesOrDefault(capabilities)).values]

\* the write a product call submits and what the registry answers
PDPProductWrite(r, by, fn, signer, pdpOffering, capabilities) ==
  LET tx == Event("tx", by, 0, fn, signer,
                  ProductArguments(pdpOffering, capabilities), 0)
      result == RegistryWriteProduct(r, signer, fn, tx.args.productData,
                                     tx.args.capabilityKeys,
                                     tx.args.capabilityValues)
  IN [tx |-> tx, result |-> result]

\* ------------------------------------------------------------------------
\* product writes: scenarios and actions
\* ------------------------------------------------------------------------

\* addPDPProduct / updatePDPProduct calls a scenario makes
MaxProductWrites == 1

\* the capabilities argument: left out, or a map holding a value, an
\* undefined, a null and an empty string
CapabilitySamples ==
  {Null,
   [entries |-> <<[key |-> "region", value |-> "us-east"],
                  [key |-> "tier", value |-> JsUndefined],
                  [key |-> "note", value |-> JsNull],
                  [key |-> "zone", value |-> ""]>>]}

IsProductTx(e) ==
  e.kind = "tx" /\ e.by \in {"addPDPProduct", "updatePDPProduct"}

ProductWrites == Cardinality({j \in 1..Len(trace) : IsProductTx(trace[j])})

ProductInit ==
  /\ reg = [n |-> 1, over |-> <<>>]
  /\ fee = 5
  /\ approved = {}
  /\ balance = [a \in Signers |-> 12]
  /\ mc = WorkingMulticall
  /\ codec = StrictCodec
  /\ registryContract = "null"
  /\ lastCall = NoCall
  /\ synapse = NoSynapse
  /\ ListingIdle
  /\ WritersIdle

\* one product call, made at any point of the scenario's registerProvider calls
CallProductWrite(by, fn) ==
  \E signer \in Signers, capabilities \in CapabilitySamples :
    LET w == PDPProductWrite(reg, by, fn, signer, OfferingSample, capabilities) IN
    /\ ProductWrites < MaxProductWrites
    /\ registryContract' = GetRegistryContract(registryContract)
    /\ trace' = Append(trace, w.tx)
    /\ reg' = IF w.result.status = "fulfilled" THEN w.result.value ELSE reg
    /\ lastCall' =
         [op |-> by,
          arg |-> [signer |-> signer, pdpOffering |-> OfferingSample,
                   capabilities |-> capabilities],
          out |-> IF w.result.status = "fulfilled" THEN Fulfilled(w.tx)
                  ELSE w.result]
    /\ UNCHANGED <<mc, codec, chainVars, synapse, listingVars, registration, setup>>

\* addPDPProduct(signer, pdpOffering, capabilities)
CallAddPDPProduct == CallProductWrite("addPDPProduct", "addProduct")

\* updatePDPProduct(signer, pdpOffering, capabilities)
CallUpdatePDPProduct == CallProductWrite("updatePDPProduct", "updateProduct")

ProductNext ==
  \/ RegisterStart
  \/ RegisterReadFee
  \/ RegisterEncode
  \/ RegisterSubmit
  \/ CallAddPDPProduct
  \/ CallUpdatePDPProduct

SpecProduct == ProductInit /\ [][ProductNext]_vars

\* the arrays carry the map: equal length, every key once and at the place of
\* its value, a null or undefined value as the empty string
CarriesMap(entries, keys, values) ==
  /\ Len(keys) = Len(values)
  /\ Len(keys) = Len(entries)
  /\ \A e \in Range(entries) :
       /\ Cardinality({i \in 1..Len(keys) : keys[i] = e.key}) = 1
       /\ \A i \in 1..Len(keys) :
            keys[i] = e.key =>
              values[i] = IF e.value \in {JsNull, JsUndefined} THEN "" ELSE e.value
  /\ \A i \in 1..Len(keys) : \E e \in Range(entries) : e.key = keys[i]

LastTx == trace[Len(trace)]

\* C26: the capability arrays submitted by registerProvider (with an
\* offering), addPDPProduct and updatePDPProduct have equal length, hold every
\* key of the map exactly once, pair keys[i] with that key's value at
\* values[i], and carry a null or undefined value as the empty string.
C26_CapabilityArraysCarryMap ==
  trace # <<>> =>
    /\ (IsRegisterTx(LastTx) /\ registration.pc = "idle"
          /\ registration.invocation = LastTx.invocation
          /\ registration.info.pdpOffering # Null
          /\ registration.info.capabilities # Null) =>
         CarriesMap(registration.info.capabilities.entries,
                    LastTx.args.capabilityKeys, LastTx.args.capabilityValues)
    /\ (IsProductTx(LastTx) /\ lastCall.op = LastTx.by) =>
         CarriesMap(CapabilitiesOrDefault(lastCall.arg.capabilities),
                    LastTx.args.capabilityKeys, LastTx.args.capabilityValues)

\* C26 witness: a registration with an offering has submitted two pairs, one
\* of them with the empty string, and an updatePDPProduct that followed was
\* accepted with four pairs, three of them with the empty string.
C26_Witness ==
  /\ Len(trace) >= 3
  /\ \E j \in 1..Len(trace) :
       /\ IsRegisterTx(trace[j])
       /\ trace[j].args.capabilityKeys = <<"region", "tier">>
       /\ trace[j].args.capabilityValues = <<"us-east", "">>
  /\ LastTx.by = "updatePDPProduct"
  /\ lastCall.op = "updatePDPProduct"
  /\ lastCall.out.status = "fulfilled"
  /\ LastTx.args.capabilityKeys = <<"region", "tier", "note", "zone">>
  /\ LastTx.args.capabilityValues = <<"us-east", "", "", "">>

\* C27: the contract handle of the instance is created at most once: once an
\* operation has created it, no later step of any call, a write that connects
\* a signer included, replaces or clears it.
C27_HandleCreatedOnce ==
  /\ [](registryContract \in {"null", "contract"})
  /\ [][registryContract # "null" => registryContract' = registryContract]_vars

\* C27 witness: two signers have each written through the instance, one with
\* registerProvider and one with a product call made while that registration
\* was in flight, and the handle is the one the first use created.
C27_Witness ==
  /\ registryContract = "contract"
  /\ Len(trace) >= 3
  /\ \E i, j \in 1..Len(trace) :
       /\ i < j
       /\ IsFeeRead(trace[i])
       /\ IsProductTx(trace[i + 1])
       /\ IsRegisterTx(trace[j])
       /\ trace[i].invocation = trace[j].invocation
       /\ trace[i + 1].from # trace[j].from

\* ------------------------------------------------------------------------
\* Two listings in flight on one instance
\* ------------------------------------------------------------------------

\* registries of one page and of two pages
ConcurrentRegistries ==
  {r \in ListingRegistries : r.n \in {1, PageSize + 1}}

ConcurrentInit ==
  /\ reg \in ConcurrentRegistries
  /\ mc \in ListingMulticallSamples
  /\ codec = StrictCodec
  /\ registryContract = "null"
  /\ lastCall = NoCall
  /\ synapse = NoSynapse
  /\ ChainIdle
  /\ ListingIdle
  /\ WritersIdle

\* a second listing is called while the first is in flight
RivalStart ==
  \E kind \in {"all", "byType"} :
    /\ listing.pc \in {"loop", "join"}
    /\ rival.pc = "idle"
    /\ rival' = [NoListing EXCEPT !.kind = kind, !.pc = "loop", !.hasMore = TRUE]
    /\ registryContract' = GetRegistryContract(registryContract)
    /\ UNCHANGED <<envVars, chainVars, lookupVars, listing, pageLog, regChanged,
                   writerVars>>

\* the page request the second listing awaits is answered, or fails
RivalFetchPage ==
  /\ rival.pc = "loop"
  /\ rival.hasMore
  /\ \E page \in
         {PageFailure,
          Fulfilled(IF rival.kind = "all"
                    THEN RegistryGetAllActiveProviders(reg, rival.offset, PageSize)
                    ELSE RegistryGetProvidersByProductType(reg, rival.offset, Limit))} :
       rival' = LoopStep(rival, page)
  /\ UNCHANGED <<envVars, chainVars, registryContract, lookupVars, listing,
                 pageLog, regChanged, writerVars>>

\* a pending detail batch of the second listing settles
RivalBatchSettles ==
  \E k \in 1..Len(rival.providerPromises) :
    /\ rival.providerPromises[k].state = "pending"
    /\ \E out \in GetProviders(reg, mc, rival.providerPromises[k].ids) :
      /\ rival' = [rival EXCEPT
                     !.providerPromises[k].state = out.status,
                     !.providerPromises[k].value = out.value,
                     !.providerPromises[k].order = SettledCount(rival) + 1]
      /\ registryContract' = GetRegistryContract(registryContract)
      /\ UNCHANGED <<envVars, chainVars, lookupVars, listing, pageLog, regChanged,
                     writerVars>>

\* the second listing's Promise.all has every batch
RivalJoin ==
  /\ rival.pc = "join"
  /\ \A k \in 1..Len(rival.providerPromises) :
       rival.providerPromises[k].state = "fulfilled"
  /\ rival' =
       [rival EXCEPT
          !.pc = "done",
          !.out = Fulfilled(JoinResult(rival.kind,
                                       PromiseAll(rival.providerPromises)))]
  /\ UNCHANGED <<envVars, chainVars, registryContract, lookupVars, listing,
                 pageLog, regChanged, writerVars>>

\* the second listing's Promise.all rejects
RivalJoinRejects ==
  \E k \in 1..Len(rival.providerPromises) :
    /\ rival.pc = "join"
    /\ rival.providerPromises[k].state = "rejected"
    /\ rival' = [rival EXCEPT
                   !.pc = "rejected",
                   !.out = Rejected(rival.providerPromises[k].value)]
    /\ UNCHANGED <<envVars, chainVars, registryContract, lookupVars, listing,
                   pageLog, regChanged, writerVars>>

ConcurrentNext ==
  \/ ListingStart
  \/ ListingFetchPage
  \/ ListingBatchSettles
  \/ ListingJoin
  \/ ListingJoinRejects
  \/ RivalStart
  \/ RivalFetchPage
  \/ RivalBatchSettles
  \/ RivalJoin
  \/ RivalJoinRejects

SpecConcurrent == ConcurrentInit /\ [][ConcurrentNext]_vars

\* the detail batches of a listing that runs alone, from the page at `offset`
RECURSIVE SoloBatches(_, _)
SoloBatches(kind, offset) ==
  LET page == IF kind = "all"
              THEN RegistryGetAllActiveProviders(reg, offset, PageSize)
              ELSE RegistryGetProvidersByProductType(reg, offset, Limit)
      own == IF Len(page.providerIds) > 0
             THEN <<ExpectedBatch(page.providerIds)>> ELSE <<>>
  IN IF page.hasMore THEN own \o SoloBatches(kind, offset + PageLimit(kind))
     ELSE own

\* what a listing that runs alone returns
SoloResult(kind) == JoinResult(kind, SoloBatches(kind, 0))

\* every completed batch of `l` holds the records of its own ids and no other
OwnLists(l) ==
  \A k \in 1..Len(l.providerPromises) :
    l.providerPromises[k].state = "fulfilled" =>
      l.providerPromises[k].value = ExpectedBatch(l.providerPromises[k].ids)

\* C28: with two listings in flight on one instance and an unchanged
\* registry, every completed detail batch holds the records of its own ids
\* only, and each listing returns what it returns when it runs alone.
C28_InvocationsIndependent ==
  /\ OwnLists(listing)
  /\ OwnLists(rival)
  /\ listing.pc = "done" => listing.out = Fulfilled(SoloResult(listing.kind))
  /\ rival.pc = "done" => rival.out = Fulfilled(SoloResult(rival.kind))

\* C28 witness: a listing of all providers and a by-type listing started
\* while it was in flight have both returned two pages' records, the second
\* having completed its batches in the opposite order.
C28_Witness ==
  /\ listing.pc = "done" /\ listing.kind = "all"
  /\ rival.pc = "done" /\ rival.kind = "byType"
  /\ Len(listing.out.value) > PageSize
  /\ Len(rival.out.value) > PageSize
  /\ Len(rival.providerPromises) = 2
  /\ rival.providerPromises[2].order < rival.providerPromises[1].order
  /\ listing.providerPromises[1].order < listing.providerPromises[2].order

\* ------------------------------------------------------------------------
\* The ids getProviders returns
\* ------------------------------------------------------------------------

\* s can be obtained from t by leaving elements out
RECURSIVE IsSubsequence(_, _)
IsSubsequence(s, t) ==
  IF s = <<>> THEN TRUE
  ELSE IF t = <<>> THEN FALSE
  ELSE IF Head(s) = Head(t) THEN IsSubsequence(Tail(s), Tail(t))
  ELSE IsSubsequence(s, Tail(t))

\* C29: the ids of the records getProviders returns form a subsequence of the
\* requested ids, so the result is in request order and never longer than the
\* request, whichever path answered.
C29_IdsSubsequenceOfRequest ==
  (lastCall.op = "getProviders" /\ lastCall.out.status = "fulfilled") =>
    /\ IsSubsequence(IdsOf(lastCall.out.value), lastCall.arg)
    /\ Len(lastCall.out.value) <= Len(lastCall.arg)
    /\ (AggregatedPathUsed \/ FallbackPathUsed \/ lastCall.arg = <<>>)

\* C29 witness: the fallback answered a request for ids 2, 1 with the record
\* of id 1 alone.
C29_Witness ==
  /\ FallbackPathUsed
  /\ lastCall.arg = <<2, 1>>
  /\ lastCall.out.status = "fulfilled"
  /\ IdsOf(lastCall.out.value) = <<1>>

\* ------------------------------------------------------------------------
\* Removal during a listing
\* ------------------------------------------------------------------------

\* C30 (as claimed): every record getAllActiveProviders returns is active,
\* also when a provider is removed after the page listing its id was fetched
\* and before its detail batch read it.
C30_AllListedAreActive ==
  (listing.pc = "done" /\ listing.kind = "all") =>
    \A k \in 1..Len(listing.out.value) : listing.out.value[k].active

\* ------------------------------------------------------------------------
\* Registry writes between two page requests
\* ------------------------------------------------------------------------

\* the ids the registry lists for a listing of `kind` that are active and
\* read without failure
ListedNow(kind) ==
  {id \in Range(IF kind = "all" THEN ActiveIds(reg) ELSE ProductTypeIds(reg)) :
     Entry(reg, id).get = "ok" /\ Entry(reg, id).info.isActive}

\* C31 (as claimed): a listing returns no provider id twice and misses no
\* provider that was active during the whole listing, also when another
\* provider is removed between two of its page requests.
C31_NoneTwiceNoneMissing ==
  listing.pc = "done" =>
    /\ NoDuplicates(IdsOf(listing.out.value))
    /\ \A id \in ListedNow(listing.kind) :
         \E k \in 1..Len(listing.out.value) : listing.out.value[k].id = id

\* ------------------------------------------------------------------------
\* What a completed setupProvider run leaves behind (SpecSetup)
\* ------------------------------------------------------------------------

\* provider `id` has a PDP product that reads as active
HasActivePDP(id) ==
  LET pdpService == GetPDPService(reg, id) IN
  /\ pdpService.status = "fulfilled"
  /\ pdpService.value # Null
  /\ pdpService.value.isActive

\* C32 (as claimed): when setupProvider has completed, the id it approved or
\* found approved is the id registered for the service-provider address, and
\* that provider has an active PDP product.
C32_ApprovedProviderHasActiveProduct ==
  setup.pc = "done" =>
    /\ setup.providerId \in approved
    /\ setup.providerId =
         RegistryGetProviderIdByAddress(reg, setup.spAddress).returnData.value
    /\ setup.providerId # 0
    /\ HasActivePDP(setup.providerId)

\* C33 (as claimed): the setup script submits a registerProvider transaction
\* only when the service provider's balance covers the fee the registry
\* requires at that moment, which is the value the transaction pays.
C33_BalanceCoversFeePaid ==
  [][\A j \in (Len(trace) + 1)..Len(trace') :
       (/\ trace'[j].kind = "tx"
        /\ trace'[j].by = "setupProvider"
        /\ trace'[j].fn = "registerProvider") =>
         /\ trace'[j].value = fee
         /\ balance[trace'[j].from] >= trace'[j].value]_vars

\* ------------------------------------------------------------------------
\* main of the devnet registration scripts
\* ------------------------------------------------------------------------

\* the account of SP_PRIVATE_KEY and the account of DEPLOYER_PRIVATE_KEY
SpAddress == AddressOf(1)

DeployerAddress == AddressOf(2)

\* the two scripts: the signer their registry contract object is bound to,
\* and the signers of the registerProvider attempts whose signature is in the
\* script's ABI, in the order they are tried
ScriptSamples ==
  { [spRegistrySigner |-> DeployerAddress,
     attempts |-> <<[from |-> DeployerAddress, productType |-> 255],
                    [from |-> DeployerAddress, productType |-> 1],
                    [from |-> SpAddress, productType |-> 0]>>],
    [spRegistrySigner |-> SpAddress,
     attempts |-> <<[from |-> SpAddress, productType |-> 0]>>] }

\* providerId = await spRegistry.addressToProviderId(spAddress)
IdLookupAddress(script, accepted) == SpAddress

\* the registerProvider write of one attempt
AttemptTx(attempt, run, registrationFee) ==
  Event("tx", "main", run, "registerProvider", attempt.from,
        [payee |-> SpAddress, name |-> "Devnet Test Provider",
         description |-> "Test provider for devnet development",
         productType |-> attempt.productType, productData |-> EmptyBytes,
         capabilityKeys |-> <<>>, capabilityValues |-> <<>>],
        registrationFee)

\* the attempts are tried in order until the registry accepts one: the index
\* of that attempt, 0 when every attempt is refused
AcceptedAttempt(r, currentFee, balances, script, run) ==
  LET ok == {i \in 1..Len(script.attempts) :
               SendRegisterProvider(r, currentFee, balances,
                                    AttemptTx(script.attempts[i], run, currentFee))
                 .status = "fulfilled"}
  IN IF ok = {} THEN 0 ELSE CHOOSE i \in ok : \A j \in ok : i <= j

MainRegistries ==
  {[n |-> 0, over |-> <<>>], [n |-> 1, over |-> <<>>]}

MainInit ==
  /\ reg \in MainRegistries
  /\ fee \in FeeValues
  /\ approved \in {{}, {1}}
  /\ balance \in {[a \in Signers |-> amount] : amount \in {4, 12}}
  /\ mc = WorkingMulticall
  /\ codec = StrictCodec
  /\ registryContract = "null"
  /\ lastCall = NoCall
  /\ synapse = NoSynapse
  /\ ListingIdle
  /\ WritersIdle

\* the script is run, the first time or again after a run that completed;
\* Step 1 reads addressToProviderId(spAddress)
MainStart ==
  \E script \in ScriptSamples :
    LET providerId == ControlledId(reg, SpAddress) IN
    /\ setup.pc \in {"idle", "done"}
    /\ setup.run < MaxRuns
    /\ setup.run > 0 => script = setup.config
    /\ setup' = [NoSetup EXCEPT
                   !.pc = IF providerId = 0 THEN "register" ELSE "approve",
                   !.run = setup.run + 1, !.config = script,
                   !.spAddress = SpAddress,
                   !.isRegistered = providerId # 0,
                   !.providerId = providerId]
    /\ UNCHANGED <<envVars, chainVars, registryContract, lookupVars, listingVars,
                   registration, trace>>

\* Step 2, balance below the fee read, or the address is registered, or no
\* attempt is accepted: process.exit(1)
MainExits ==
  /\ setup.pc = "register"
  /\ \/ balance[SpAddress] < fee
     \/ RegistryIsRegisteredProvider(reg, SpAddress)
     \/ AcceptedAttempt(reg, fee, balance, setup.config, setup.run) = 0
  /\ setup' = [setup EXCEPT !.pc = "exited"]
  /\ UNCHANGED <<envVars, chainVars, registryContract, lookupVars, listingVars,
                 registration, trace>>

\* Step 2: the fee is read, the balance checked, the registration submitted
\* and the id read back
MainRegister ==
  LET i == AcceptedAttempt(reg, fee, balance, setup.config, setup.run)
      read == Event("read", "main", setup.run, "REGISTRATION_FEE",
                    setup.config.spRegistrySigner, <<>>, fee)
      tx == AttemptTx(setup.config.attempts[i], setup.run, fee)
      after == SendRegisterProvider(reg, fee, balance, tx).value
  IN
  /\ setup.pc = "register"
  /\ balance[SpAddress] >= fee
  /\ ~RegistryIsRegisteredProvider(reg, SpAddress)
  /\ i # 0
  /\ trace' = trace \o <<read, tx>>
  /\ reg' = after
  /\ balance' = Debit(balance, tx)
  /\ setup' = [setup EXCEPT
                 !.providerId =
                   ControlledId(after, IdLookupAddress(setup.config,
                                                       setup.config.attempts[i])),
                 !.pc = "approve"]
  /\ UNCHANGED <<mc, codec, fee, approved, registryContract, lookupVars,
                 listingVars, registration>>

\* Step 3: the id is approved in WarmStorage unless it is approved already
MainApprove ==
  LET isApproved == setup.providerId \in approved
      tx == Event("tx", "main", setup.run, "addApprovedProvider",
                  DeployerAddress, [providerId |-> setup.providerId], 0)
  IN
  /\ setup.pc = "approve"
  /\ trace' = IF isApproved THEN trace ELSE Append(trace, tx)
  /\ approved' = approved \cup {setup.providerId}
  /\ setup' = [setup EXCEPT !.pc = "done",
                            !.out = Fulfilled([providerId |-> setup.providerId])]
  /\ UNCHANGED <<envVars, fee, balance, registryContract, lookupVars,
                 listingVars, registration>>

MainNext ==
  \/ MainStart
  \/ MainExits
  \/ MainRegister
  \/ MainApprove

SpecMain == MainInit /\ [][MainNext]_vars

JustSubmitted ==
  /\ trace # <<>>
  /\ IsRegisterTx(LastTx)
  /\ registration.pc = "idle"
  /\ registration.invocation = LastTx.invocation

\* C35: a registerProvider call without an offering submits product type 0,
\* empty product data and empty capability lists, whatever info.capabilities
\* holds; capability pairs are submitted only together with an offering.
C35_NoOfferingNoCapabilities ==
  JustSubmitted =>
    /\ LastTx.args.productType = 0
    /\ registration.info.pdpOffering = Null =>
         /\ LastTx.args.productData = EmptyBytes
         /\ LastTx.args.capabilityKeys = <<>>
         /\ LastTx.args.capabilityValues = <<>>
    /\ LastTx.args.capabilityKeys # <<>> =>
         /\ registration.info.pdpOffering # Null
         /\ LastTx.args.productData =
              RegistryEncodePDPOffering(registration.info.pdpOffering)

\* C35 witness: a call whose info holds capabilities but no offering has
\* submitted its write, with empty lists.
C35_Witness ==
  /\ JustSubmitted
  /\ registration.info.pdpOffering = Null
  /\ registration.info.capabilities # Null
  /\ LastTx.args.capabilityKeys = <<>>
  /\ LastTx.args.productData = EmptyBytes

\* ------------------------------------------------------------------------
\* Sessions of a Synapse instance (SpecSynapse)
\* ------------------------------------------------------------------------

\* the signer Synapse.create derived for the instance
ClientSigner == DeriveSigner(synapse.options).value

\* the value handed to the last setSession call, null when there was none
LastSessionSet == IF trace = <<>> THEN JsNull ELSE trace[1]

\* the instance with its session left out
WithoutSession(instance) ==
  [f \in DOMAIN instance \ {"_session"} |-> instance[f]]

\* C36: getSigner answers with the signer of the session key set last, and
\* with the client signer when none was set or the last value set is null;
\* getClient always answers with the client signer; setSession changes
\* nothing but the session.
C36_SignerFollowsLastSession ==
  /\ [](lastCall.op = "getSigner" =>
          lastCall.out.value =
            IF LastSessionSet \in DOMAIN SessionSigner
            THEN SessionSigner[LastSessionSet] ELSE ClientSigner)
  /\ [](lastCall.op = "getClient" => lastCall.out.value = ClientSigner)
  /\ [][synapse.status = "created" =>
          /\ synapse'.status = "created"
          /\ WithoutSession(synapse'.instance) = WithoutSession(synapse.instance)
          /\ synapse'.options = synapse.options
          /\ synapse'.chain = synapse.chain]_vars

\* C36 witness: after session key A and then null were set, getSigner has
\* answered with the client signer.
C36_Witness ==
  /\ lastCall.op = "getSigner"
  /\ trace = <<JsNull>>
  /\ synapse.instance._session = JsNull
  /\ lastCall.out.value = ClientSigner
  /\ ClientSigner \notin {SessionSigner[k] : k \in DOMAIN SessionSigner}

\* ------------------------------------------------------------------------
\* Validation in Synapse.create (SpecSynapse)
\* ------------------------------------------------------------------------

\* the authentication options supplied to the last Synapse.create
Supplied ==
  {k \in {"privateKey", "provider", "signer"} : Truthy(synapse.options[k])}

\* C37: Synapse.create returns an instance only when exactly one of
\* privateKey, provider and signer is supplied and the detected network is
\* mainnet, calibration or devnet; with none or several of them it fails
\* before it creates a provider or makes a network call.
C37_OneOptionValidNetwork ==
  /\ synapse.status = "created" =>
       /\ Cardinality(Supplied) = 1
       /\ synapse.chain.network \in {"mainnet", "calibration", "devnet"}
       /\ synapse.instance._network = synapse.chain.network
  /\ (synapse.status # "none" /\ Cardinality(Supplied) # 1) =>
       /\ synapse.status = "failed"
       /\ synapse.error # ""
       /\ synapse.effects = <<>>

\* C37 witness: a private key and a provider were both supplied on mainnet
\* and creation failed on the count, with nothing created and no call made.
C37_Witness ==
  /\ synapse.status = "failed"
  /\ Supplied = {"privateKey", "provider"}
  /\ synapse.chain.network = "mainnet"
  /\ synapse.options.rpcURL = "https://rpc"
  /\ synapse.error = "Must provide exactly one of: privateKey, provider, or signer"
  /\ synapse.effects = <<>>

\* ------------------------------------------------------------------------
\* Failures of Synapse.getProviderInfo (SpecSynapse)
\* ------------------------------------------------------------------------

InfoAsked == lastCall.op = "getProviderInfo"

InvalidAddressGiven ==
  /\ lastCall.arg.providerAddress.type = "string"
  /\ lastCall.arg.providerAddress.text \notin ValidAddressStrings

\* the resolver was asked and failed with the value lastCall.arg.resolver.error
ResolverFailed == ~InvalidAddressGiven /\ lastCall.arg.resolver.kind = "throws"

\* the failure is one the catch block lets through as it is
PassedThrough ==
  /\ lastCall.arg.resolver.error.isError
  /\ \E phrase \in {"Invalid provider address", "is not approved", "not found"} :
       Includes(lastCall.arg.resolver.error.message, phrase)

\* never null; an invalid string is refused without a query; no approved
\* provider is reported as not found or not approved
InfoNeverNull ==
  /\ lastCall.out.status = "fulfilled" =>
       /\ lastCall.arg.resolver.kind = "found"
       /\ lastCall.out.value.serviceProvider = lastCall.arg.providerAddress.text
  /\ InvalidAddressGiven =>
       /\ lastCall.out.status = "rejected"
       /\ lastCall.out.value[1] = "Invalid provider address"
       /\ ~lastCall.out.queried
  /\ (~InvalidAddressGiven /\ lastCall.arg.resolver.kind = "null") =>
       /\ lastCall.out.status = "rejected"
       /\ Includes(lastCall.out.value, "not found")
       /\ Includes(lastCall.out.value, " or not approved")
       /\ lastCall.out.value[1] # "Failed to get provider info"

Wrapped ==
  /\ lastCall.out.status = "rejected"
  /\ lastCall.out.value =
       <<"Failed to get provider info">> \o lastCall.arg.resolver.error.message

\* C38 as stated: getProviderInfo never returns null, refuses an invalid
\* address string without a query, reports no approved provider as not found
\* or not approved, and wraps every other failure as "Failed to get provider
\* info".
C38_OtherFailuresWrapped ==
  InfoAsked => (InfoNeverNull /\ (ResolverFailed => Wrapped))

\* C38 amended: as stated, except that a failure that is an Error whose
\* message contains "Invalid provider address", "is not approved" or "not
\* found" is thrown on as it is, and only the remaining failures are wrapped.
C38_OtherFailuresWrappedUnlessListed ==
  InfoAsked =>
    /\ InfoNeverNull
    /\ (ResolverFailed /\ ~PassedThrough) => Wrapped
    /\ (ResolverFailed /\ PassedThrough) =>
         /\ lastCall.out.status = "rejected"
         /\ lastCall.out.value = lastCall.arg.resolver.error.message

\* C38 witness: the resolver failed with the Error "header not found" for a
\* valid address, and getProviderInfo threw it on unwrapped.
C38_Witness ==
  /\ InfoAsked
  /\ lastCall.arg.providerAddress.text = "0xSP1"
  /\ ResolverFailed
  /\ lastCall.arg.resolver.error = Thrown(TRUE, <<"header ", "not found">>)
  /\ lastCall.out.status = "rejected"
  /\ lastCall.out.value = <<"header ", "not found">>

=============================================================================
